---- MODULE Spec2Model ----
(***************************************************************************)
(* Model of cursor-flow: the retry/resume controller of                    *)
(* cursor-agent-task.js (executeTaskWithRetry, the judge client, the       *)
(* assistant stream filter) and the queue runner of cursor-tasks.js        *)
(* (run_all_tasks, execute_task, update_task_status, save_task_file).      *)
(*                                                                         *)
(* Strings of the source that are not ASCII are written as ASCII tokens:   *)
(*   conclusion  "completed"   = "已完成"     "suggest" = "建议继续"        *)
(*               "continue"    = "需要继续"   "runtime" = "运行时错误"      *)
(*               "exec_error"  = "执行出错"                                 *)
(*   finalStatus of execute_task: "ok" = "成功", "partial_ok" = "部分完成", *)
(*               "failed" = "失败"                                          *)
(***************************************************************************)
EXTENDS Integers, Sequences, FiniteSets, TLC

(***************************************************************************)
(* Bounds of the model.                                                    *)
(***************************************************************************)
MaxRetry == 3
NumTasks == 2
MaxEvents == 4
MaxSaves == 2
MaxCalls == 3
MaxChunks == 2
MaxEnvLines == 2
MaxBytes == 4

(* JavaScript null for the string-valued optionals of the source. *)
Null == "NULL"

(***************************************************************************)
(* The environment: what one cursor-agent subprocess can do.               *)
(* settle: "close" (process closed), "timeout" (the per-invocation timer   *)
(* fired first), "spawn_error" (child 'error' event), "not_installed"      *)
(* (ensureCursorAgentInstalled calls die(127)).                            *)
(* code/signal: the argument of the close event; signal = TRUE is a close  *)
(* with code null.  stderr: the trimmed error stream.  sid: the session id *)
(* the stream reported, Null when it reported none.                        *)
(***************************************************************************)
SessionIds == {"s1", "s2"}

AgentOutcomes ==
  [settle : {"close"}, code : {0, 1}, signal : {FALSE}, stderr : {"", "err"},
   sid : SessionIds \cup {Null}]
  \cup [settle : {"close"}, code : {0}, signal : {TRUE}, stderr : {"", "err"},
        sid : SessionIds \cup {Null}]
  \cup [settle : {"timeout", "spawn_error", "not_installed"}, code : {0},
        signal : {FALSE}, stderr : {""}, sid : {Null}]

(* exitCode: code ?? 0 *)
ExitCodeOf(o) == IF o.signal THEN 0 ELSE o.code

(***************************************************************************)
(* The environment: what one call-llm subprocess (the judge) can do.       *)
(* stdout is described by what JSON.parse makes of it:                     *)
(*   shape "empty" / "prose" / "fenced"  : JSON.parse throws               *)
(*   shape "json_null"                   : parses to null                  *)
(*   shape "json_scalar" / "json_array"  : parses, has no result field     *)
(*   shape "json_object"                 : an object; result is the value  *)
(*     of its result field ("absent" when it has none, "DONE" for any      *)
(*     token that is not one of the three), reasons the kind of its        *)
(*     reasons field: "absent" (missing or falsy), "strings" (an array of  *)
(*     strings), "empty_array", "string" (a non-empty string), "nonstrings" (a non-empty  *)
(*     array whose first element is not a string), "non_iterable" (a       *)
(*     truthy value without length that cannot be spread), "length_object" *)
(*     (an object with a positive length and no slice method).             *)
(***************************************************************************)
JudgeResults == {"done", "resume", "auto", "DONE", "absent"}

ReasonShapes ==
  {"absent", "strings", "empty_array", "string", "nonstrings", "non_iterable",
   "length_object"}

JudgeStdouts ==
  [shape : {"empty", "prose", "fenced", "json_null", "json_scalar", "json_array"},
   result : {"absent"}, reasons : {"absent"}]
  \cup [shape : {"json_object"}, result : JudgeResults, reasons : ReasonShapes]

NoStdout == [shape |-> "empty", result |-> "absent", reasons |-> "absent"]

DoneStdout == [shape |-> "json_object", result |-> "done", reasons |-> "strings"]

(* A clean close with every stdout; a close by signal, a failing close and *)
(* a rejected call with no output and with an output that says done.       *)
JudgeOutcomes ==
  [settle : {"close"}, code : {0}, signal : {FALSE}, stderr : {""},
   stdout : JudgeStdouts]
  \cup [settle : {"close"}, code : {0}, signal : {TRUE}, stderr : {"", "err"},
        stdout : {NoStdout, DoneStdout}]
  \cup [settle : {"close"}, code : {1}, signal : {FALSE}, stderr : {"", "err"},
        stdout : {NoStdout, DoneStdout}]
  \cup [settle : {"close"}, code : {0}, signal : {FALSE}, stderr : {"err"},
        stdout : {NoStdout, DoneStdout}]
  \cup [settle : {"timeout", "spawn_error", "missing_script"}, code : {0},
        signal : {FALSE}, stderr : {""}, stdout : {NoStdout, DoneStdout}]

(* JSON.parse(stdout.trim()) throws *)
JSONParseThrows(stdout) == stdout.shape \in {"empty", "prose", "fenced"}

(* The fail-closed default of the judge client. *)
ResumeDefault == [result |-> "resume", reasons |-> "strings"]

(* A parser without the fallback to resume: output that does not parse or  *)
(* names no known verdict counts as done.                                  *)
parseLLMResultTrusting(stdout) ==
  IF stdout.shape = "json_object" /\ stdout.result \in {"resume", "auto"}
  THEN [result |-> stdout.result, reasons |-> "strings"]
  ELSE [result |-> "done", reasons |-> "strings"]

parseLLMResult(stdout) ==
  IF JSONParseThrows(stdout) THEN ResumeDefault
  ELSE IF stdout.shape = "json_null" THEN ResumeDefault
  ELSE IF stdout.result \in {"done", "resume", "auto"}
       THEN [result |-> stdout.result,
             reasons |-> IF stdout.reasons = "absent" THEN "strings"
                         ELSE stdout.reasons]
       ELSE ResumeDefault

(* runCallLLMOnce: TRUE when the promise rejects. *)
runCallLLMOnceRejects(raw) == raw.settle # "close"

(* The body of the try block of interpretSemanticsViaLLM: threw is TRUE    *)
(* when an exception leaves it (runCallLLMOnce rejected, or the log loop   *)
(* called slice on a reasons value that has none).                         *)
interpretSemanticsTry(raw) ==
  IF runCallLLMOnceRejects(raw)
  THEN [threw |-> TRUE, result |-> "none", reasons |-> "none"]
  ELSE IF ExitCodeOf(raw) # 0 \/ raw.stderr # ""
  THEN [threw |-> FALSE, result |-> "resume", reasons |-> "strings"]
  ELSE LET parsed == parseLLMResult(raw.stdout)
       IN IF parsed.reasons = "length_object"
          THEN [threw |-> TRUE, result |-> "none", reasons |-> "none"]
          ELSE [threw |-> FALSE, result |-> parsed.result,
                reasons |-> parsed.reasons]

(* interpretSemanticsViaLLM: the try block and its catch. *)
interpretSemanticsViaLLM(raw) ==
  LET body == interpretSemanticsTry(raw)
  IN IF body.threw
     THEN [threw |-> FALSE, result |-> "resume", reasons |-> "strings"]
     ELSE body

(***************************************************************************)
(* State.                                                                  *)
(*                                                                         *)
(* The queue runner (cursor-tasks.js, run_all_tasks):                      *)
(*   retry      globalConfig.retry                                         *)
(*   tasks      taskFile.tasks in memory                                   *)
(*   disk       the tasks of the queue file on disk                        *)
(*   taskIdx    the position of the for loop over taskFile.tasks           *)
(*   runnerPc   "loop" (at the loop head), "waiting" (execute_task awaits  *)
(*              run_agent_once), "finished" (run_all_tasks returned)       *)
(*   completed, skipped, errored   the counters of run_all_tasks           *)
(*   settled    how the last execute_task ended                            *)
(*                                                                         *)
(* The child process (cursor-agent-task.js, main / executeTaskWithRetry):  *)
(*   ctlPc      "idle", "loop" (while head), "agent" (awaiting the agent   *)
(*              subprocess), "judge" (awaiting the judge), "after" (after  *)
(*              the loop), "exited"                                        *)
(*   attempts, needsContinue, finalStatus, errorMessage,                   *)
(*   lastSemanticsResult, sessionId, executions   the locals of            *)
(*              executeTaskWithRetry                                       *)
(*   agentResult   the result of the last agent invocation                 *)
(*   childOut   what the child process left: exit code and printed report  *)
(*   invocations   history: one record per loop iteration                  *)
(***************************************************************************)
VARIABLES retry, tasks, disk, taskIdx, runnerPc, completed, skipped, errored,
          settled,
          ctlPc, attempts, needsContinue, finalStatus, errorMessage,
          lastSemanticsResult, sessionId, executions, agentResult, childOut,
          invocations,
          judgePc, judgeRaw, judgeVerdict,
          filterPc, lastAssistantOutput, lastUserOutput, knownUserPrompts,
          filterSessionId, written, delivered, fedCount, cumulative, lastFed,
          lastStep, callerSessionId, lastSessionIdSeen,
          savePc, memDoc, committed, fsDir, fsInodes, writerFd, savesStarted,
          readerFd, readerExpect, readerSeen, readAt,
          callNo, alive, signalled, streamPartial, timer, settle,
          settleChanges, produced, fed, stdout, streamEnded, closeEmitted,
          spawnErr, resultStdout, judgeInput,
          queue, runPc, cursor, spawned, writes, exitCode,
          envPc, systemEnv, envFile, runnerEnv, childEnv,
          byteStream, fedBytes, rawBuffer, chunkCount

runnerVars == <<retry, tasks, disk, taskIdx, runnerPc, completed, skipped,
                errored, settled>>

ctlVars == <<ctlPc, attempts, needsContinue, finalStatus, errorMessage,
             lastSemanticsResult, sessionId, executions, agentResult, childOut,
             invocations>>

queueVars == <<runnerVars, ctlVars>>

judgeVars == <<judgePc, judgeRaw, judgeVerdict>>

filterVars == <<filterPc, lastAssistantOutput, lastUserOutput, knownUserPrompts,
                filterSessionId, written, delivered, fedCount, cumulative,
                lastFed, lastStep, callerSessionId, lastSessionIdSeen>>

saveVars == <<savePc, memDoc, committed, fsDir, fsInodes, writerFd,
              savesStarted, readerFd, readerExpect, readerSeen, readAt>>

invokeVars == <<callNo, alive, signalled, streamPartial, timer, settle,
                settleChanges, produced, fed, stdout, streamEnded,
                closeEmitted, spawnErr, resultStdout, judgeInput>>

validateVars == <<queue, runPc, cursor, spawned, writes, exitCode>>

envVars == <<envPc, systemEnv, envFile, runnerEnv, childEnv>>

chunkVars == <<byteStream, fedBytes, rawBuffer, chunkCount>>

vars == <<queueVars, judgeVars, filterVars, saveVars, invokeVars, validateVars,
          envVars, chunkVars>>

(* What the actions of one part leave alone. *)
notQueueVars ==
  <<validateVars, judgeVars, filterVars, saveVars, invokeVars, envVars, chunkVars>>

notJudgeVars ==
  <<validateVars, queueVars, filterVars, saveVars, invokeVars, envVars, chunkVars>>

notFilterVars ==
  <<validateVars, queueVars, judgeVars, saveVars, invokeVars, envVars, chunkVars>>

notSaveVars ==
  <<validateVars, queueVars, judgeVars, filterVars, invokeVars, envVars, chunkVars>>

notInvokeVars ==
  <<queueVars, judgeVars, filterVars, saveVars, validateVars, envVars, chunkVars>>

notEnvVars ==
  <<queueVars, judgeVars, filterVars, saveVars, invokeVars, validateVars,
    chunkVars>>

notValidateVars ==
  <<queueVars, judgeVars, filterVars, saveVars, invokeVars, envVars, chunkVars>>

(***************************************************************************)
(* executeTaskWithRetry and main of cursor-agent-task.js.                  *)
(***************************************************************************)
NoAgentResult == [exitCode |-> 0, stderr |-> "", sid |-> Null]

NoReport ==
  [success |-> FALSE, attempts |-> 0, finalStatus |-> "none",
   executions |-> <<>>, errorMessage |-> Null]

NoChildOut == [exitCode |-> 0, printed |-> FALSE, report |-> NoReport]

(* The result object the close handler of runCursorAgentInitial /          *)
(* runCursorAgentResume resolves with.  A resume call starts its           *)
(* extractedSessionId from the handle it was given.                        *)
AgentResultOf(o, isResume, handle) ==
  [exitCode |-> ExitCodeOf(o),
   stderr |-> o.stderr,
   sid |-> IF isResume /\ o.sid = Null THEN handle ELSE o.sid]

(* A controller that keeps the first session id it got. *)
NextSessionIdKeepFirst(result, isResume, handle) ==
  IF handle # Null THEN handle ELSE result.sid

(* The session id kept after an invocation. *)
NextSessionId(result, isResume, handle) ==
  IF isResume
  THEN IF result.sid # Null /\ result.sid # handle THEN result.sid ELSE handle
  ELSE IF result.sid # Null THEN result.sid ELSE handle

(* is_runtime_error of cursor-tasks.js: a non-zero exit code, or an error   *)
(* stream in which one of the six patterns is found.  Of the error streams *)
(* of AgentOutcomes, "err" stands for a text with none of them (a warning).*)
is_runtime_error(code, stderr) ==
  code # 0 \/ stderr \in {"error: ENOENT"}

(* if (result.exitCode !== 0 || result.stderr) *)
IsRuntimeError(result) == result.exitCode # 0 \/ result.stderr # ""

(* The short instruction of a resume call. *)
ResumePromptAlwaysContinue(last) == "continue"

ResumePrompt(last) == IF last # Null /\ last = "auto" THEN "auto" ELSE "continue"

(* conclusion of an executions entry after a verdict *)
Conclusion(result) ==
  IF result = "done" THEN "completed"
  ELSE IF result = "auto" THEN "suggest" ELSE "continue"

(* Using the verdict throws inside the try block of the loop:              *)
(* reasons[0].substring on a non-string, or spreading a non-iterable.      *)
VerdictUseThrows(sem) == sem.reasons \in {"nonstrings", "non_iterable"}

(* The check after the loop. *)
FinalStatusAfterLoop(nc, att, rt, fs) ==
  IF nc /\ att >= rt THEN "partial" ELSE fs

(* A report whose success flag is set for every status but "error". *)
BuildReportLenient(att, fs, execs, msg) ==
  [success |-> (fs # "error"), attempts |-> att, finalStatus |-> fs,
   executions |-> execs, errorMessage |-> msg]

(* The object executeTaskWithRetry returns. *)
BuildReport(att, fs, execs, msg) ==
  [success |-> (fs = "done"), attempts |-> att, finalStatus |-> fs,
   executions |-> execs, errorMessage |-> msg]

(* One history record per loop iteration. *)
NewInvocation(launched, mode, handle, instr) ==
  [launched |-> launched, mode |-> mode, handle |-> handle, instr |-> instr,
   settle |-> "none", exitCode |-> 0, stderr |-> "", sid |-> Null,
   judged |-> FALSE, result |-> "none"]

LastInv == invocations[Len(invocations)]

SetLastInv(rec) == [invocations EXCEPT ![Len(invocations)] = rec]

(* The loop with a head that lets one attempt too many through. *)
CtlLoopHeadOffByOne ==
  /\ ctlPc = "loop"
  /\ UNCHANGED notQueueVars
  /\ UNCHANGED <<runnerVars, lastSemanticsResult, sessionId, executions,
                 agentResult, childOut, needsContinue>>
  /\ IF needsContinue /\ attempts <= retry
     THEN /\ attempts' = attempts + 1
          /\ IF attempts + 1 = 1
             THEN /\ ctlPc' = "agent"
                  /\ invocations' =
                       Append(invocations,
                              NewInvocation(TRUE, "initial", Null, "prompt"))
                  /\ UNCHANGED <<finalStatus, errorMessage>>
             ELSE IF sessionId = Null
             THEN /\ errorMessage' = "no_session_id"
                  /\ finalStatus' = "error"
                  /\ ctlPc' = "after"
                  /\ invocations' =
                       Append(invocations,
                              NewInvocation(FALSE, "resume", Null, "none"))
             ELSE /\ ctlPc' = "agent"
                  /\ invocations' =
                       Append(invocations,
                              NewInvocation(TRUE, "resume", sessionId,
                                            ResumePrompt(lastSemanticsResult)))
                  /\ UNCHANGED <<finalStatus, errorMessage>>
     ELSE /\ ctlPc' = "after"
          /\ UNCHANGED <<attempts, finalStatus, errorMessage, invocations>>

(* while (needsContinue && attempts < retry) { attempts++; ...             *)
(* up to the await of the agent call, or the break for a missing handle.   *)
CtlLoopHead ==
  /\ ctlPc = "loop"
  /\ UNCHANGED notQueueVars
  /\ UNCHANGED <<runnerVars, lastSemanticsResult, sessionId, executions,
                 agentResult, childOut, needsContinue>>
  /\ IF needsContinue /\ attempts < retry
     THEN /\ attempts' = attempts + 1
          /\ IF attempts + 1 = 1
             THEN /\ ctlPc' = "agent"
                  /\ invocations' =
                       Append(invocations,
                              NewInvocation(TRUE, "initial", Null, "prompt"))
                  /\ UNCHANGED <<finalStatus, errorMessage>>
             ELSE IF sessionId = Null
             THEN /\ errorMessage' = "no_session_id"
                  /\ finalStatus' = "error"
                  /\ ctlPc' = "after"
                  /\ invocations' =
                       Append(invocations,
                              NewInvocation(FALSE, "resume", Null, "none"))
             ELSE /\ ctlPc' = "agent"
                  /\ invocations' =
                       Append(invocations,
                              NewInvocation(TRUE, "resume", sessionId,
                                            ResumePrompt(lastSemanticsResult)))
                  /\ UNCHANGED <<finalStatus, errorMessage>>
     ELSE /\ ctlPc' = "after"
          /\ UNCHANGED <<attempts, finalStatus, errorMessage, invocations>>

(* The agent call settles: the promise resolves (close) or rejects         *)
(* (timer, child error), and the code up to the judge call runs.           *)
CtlAgentSettle(o) ==
  /\ ctlPc = "agent"
  /\ UNCHANGED notQueueVars
  /\ o.settle \in {"close", "timeout", "spawn_error"}
  /\ UNCHANGED <<runnerVars, attempts, needsContinue, lastSemanticsResult,
                 childOut>>
  /\ LET isResume == attempts > 1
         result == AgentResultOf(o, isResume, sessionId)
     IN IF o.settle # "close"
        THEN /\ errorMessage' = "err_message"
             /\ finalStatus' = "error"
             /\ executions' =
                  Append(executions,
                         [index |-> attempts, conclusion |-> "exec_error",
                          sessionId |-> Null])
             /\ ctlPc' = "after"
             /\ invocations' = SetLastInv([LastInv EXCEPT !.settle = o.settle])
             /\ UNCHANGED <<sessionId, agentResult>>
        ELSE /\ sessionId' = NextSessionId(result, isResume, sessionId)
             /\ agentResult' = result
             /\ invocations' =
                  SetLastInv([LastInv EXCEPT !.settle = "close",
                                             !.exitCode = result.exitCode,
                                             !.stderr = result.stderr,
                                             !.sid = result.sid])
             /\ IF IsRuntimeError(result)
                THEN /\ errorMessage' = "runtime_error"
                     /\ finalStatus' = "error"
                     /\ executions' =
                          Append(executions,
                                 [index |-> attempts, conclusion |-> "runtime",
                                  sessionId |-> Null])
                     /\ ctlPc' = "after"
                ELSE /\ ctlPc' = "judge"
                     /\ UNCHANGED <<errorMessage, finalStatus, executions>>

(* ensureCursorAgentInstalled finds no cursor-agent: die(127). *)
CtlNotInstalled ==
  /\ ctlPc = "agent"
  /\ UNCHANGED notQueueVars
  /\ ctlPc' = "exited"
  /\ childOut' = [exitCode |-> 127, printed |-> FALSE, report |-> NoReport]
  /\ invocations' = SetLastInv([LastInv EXCEPT !.launched = FALSE,
                                               !.settle = "not_installed"])
  /\ UNCHANGED <<runnerVars, attempts, needsContinue, finalStatus, errorMessage,
                 lastSemanticsResult, sessionId, executions, agentResult>>

(* The judge call settles and the rest of the loop body runs. *)
CtlJudge(raw) ==
  /\ ctlPc = "judge"
  /\ UNCHANGED notQueueVars
  /\ UNCHANGED <<runnerVars, attempts, sessionId, agentResult, childOut>>
  /\ LET sem == interpretSemanticsViaLLM(raw)
     IN /\ invocations' =
             SetLastInv([LastInv EXCEPT !.judged = TRUE,
                                        !.result = sem.result])
        /\ IF sem.threw \/ VerdictUseThrows(sem)
           THEN /\ errorMessage' = "err_message"
                /\ finalStatus' = "error"
                /\ executions' =
                     Append(executions,
                            [index |-> attempts, conclusion |-> "exec_error",
                             sessionId |-> Null])
                /\ lastSemanticsResult' =
                     IF sem.reasons = "non_iterable" THEN sem.result
                     ELSE lastSemanticsResult
                /\ ctlPc' = "after"
                /\ UNCHANGED needsContinue
           ELSE /\ lastSemanticsResult' = sem.result
                /\ executions' =
                     Append(executions,
                            [index |-> attempts,
                             conclusion |-> Conclusion(sem.result),
                             sessionId |-> IF agentResult.sid # Null
                                           THEN agentResult.sid ELSE sessionId])
                /\ UNCHANGED errorMessage
                /\ IF sem.result = "done"
                   THEN /\ finalStatus' = "done"
                        /\ needsContinue' = FALSE
                        /\ ctlPc' = "after"
                   ELSE /\ needsContinue' = TRUE
                        /\ ctlPc' = "loop"
                        /\ UNCHANGED finalStatus

(* After the loop: the retry-ceiling check, the return, and main printing  *)
(* the report and exiting with 0 or 1.                                     *)
CtlReturn ==
  /\ ctlPc = "after"
  /\ UNCHANGED notQueueVars
  /\ finalStatus' = FinalStatusAfterLoop(needsContinue, attempts, retry, finalStatus)
  /\ childOut' =
       LET rep == BuildReport(attempts, finalStatus', executions, errorMessage)
       IN [exitCode |-> IF rep.success THEN 0 ELSE 1, printed |-> TRUE,
           report |-> rep]
  /\ ctlPc' = "exited"
  /\ UNCHANGED <<runnerVars, attempts, needsContinue, errorMessage,
                 lastSemanticsResult, sessionId, executions, agentResult,
                 invocations>>

(***************************************************************************)
(* run_all_tasks, execute_task, update_task_status, save_task_file of      *)
(* cursor-tasks.js.  A task is [status, error_message, report]; the task   *)
(* names are unique (validate_config), so a task is found by its position. *)
(***************************************************************************)
InitialTasks ==
  {[status |-> "pending", error_message |-> Null, report |-> Null],
   [status |-> "done", error_message |-> Null, report |-> "old_report"],
   [status |-> "error", error_message |-> "old_error", report |-> "old_report"]}

NotSettled == [idx |-> 0, how |-> "none"]

(* update_task_status: an empty errorMessage or reportPath is falsy. *)
update_task_status(ts, i, status, msg, reportPath) ==
  [ts EXCEPT ![i] =
     [ts[i] EXCEPT
        !.status = status,
        !.error_message = IF msg # Null /\ msg # "" THEN msg
                          ELSE IF status # "error" THEN Null
                          ELSE ts[i].error_message,
        !.report = IF reportPath # Null /\ reportPath # "" THEN reportPath
                   ELSE ts[i].report]]

(* execute_task after run_agent_once resolved with what the child left:    *)
(* the finalStatus and errorMessage it computes.                           *)
ExecuteTaskOutcome(out) ==
  IF out.printed
  THEN IF out.report.success \/ out.report.finalStatus = "done"
       THEN [finalStatus |-> "ok", errorMessage |-> Null]
       ELSE IF out.report.finalStatus = "partial"
       THEN [finalStatus |-> "partial_ok", errorMessage |-> Null]
       ELSE [finalStatus |-> "failed",
             errorMessage |-> IF out.report.errorMessage \in {Null, ""}
                              THEN "task_failed"
                              ELSE out.report.errorMessage]
  ELSE IF out.exitCode # 0
  THEN [finalStatus |-> "failed", errorMessage |-> "child_exit_error"]
  ELSE [finalStatus |-> "failed", errorMessage |-> "unparsable_result"]

(* resultStatus of execute_task *)
ResultStatusPartialIsError(fs) == IF fs = "ok" THEN "done" ELSE "error"

ResultStatus(fs) == IF fs \in {"ok", "partial_ok"} THEN "done" ELSE "error"

(* Where run_all_tasks goes after a task: the catch of the loop body does   *)
(* not rethrow, the loop goes on whatever the status.                      *)
AfterTaskStopOnError(status) == IF status = "error" THEN "finished" ELSE "loop"

AfterTask(status) == "loop"

(* The end of one loop iteration without the save of the queue file. *)
FinishTaskNoSave(status, msg, reportPath, how) ==
  /\ tasks' = update_task_status(tasks, taskIdx, status, msg, reportPath)
  /\ disk' = disk
  /\ IF status = "error"
     THEN errored' = errored + 1 /\ UNCHANGED completed
     ELSE completed' = completed + 1 /\ UNCHANGED errored
  /\ taskIdx' = taskIdx + 1
  /\ runnerPc' = AfterTask(status)
  /\ settled' = [idx |-> taskIdx, how |-> how]
  /\ UNCHANGED <<retry, skipped>>

(* The end of one loop iteration of run_all_tasks: the status update, the  *)
(* save of the queue file and the counters.                                *)
FinishTask(status, msg, reportPath, how) ==
  /\ tasks' = update_task_status(tasks, taskIdx, status, msg, reportPath)
  /\ disk' = tasks'
  /\ IF status = "error"
     THEN errored' = errored + 1 /\ UNCHANGED completed
     ELSE completed' = completed + 1 /\ UNCHANGED errored
  /\ taskIdx' = taskIdx + 1
  /\ runnerPc' = AfterTask(status)
  /\ settled' = [idx |-> taskIdx, how |-> how]
  /\ UNCHANGED <<retry, skipped>>

(* The child process of an earlier task is gone. *)
NoChild ==
  /\ ctlPc' = "idle"
  /\ attempts' = 0
  /\ needsContinue' = TRUE
  /\ finalStatus' = "done"
  /\ errorMessage' = Null
  /\ lastSemanticsResult' = Null
  /\ sessionId' = Null
  /\ executions' = <<>>
  /\ agentResult' = NoAgentResult
  /\ childOut' = NoChildOut
  /\ invocations' = <<>>

(* The tests at the head of the loop body: a task that is done, error or   *)
(* of any other status than pending is skipped.                            *)
IsExecutableOrError(task) == task.status \in {"pending", "error"}

IsExecutable(task) == task.status = "pending"

(* A task that is not pending is skipped. *)
RunnerSkip ==
  /\ runnerPc = "loop"
  /\ UNCHANGED notQueueVars
  /\ taskIdx <= Len(tasks)
  /\ ~IsExecutable(tasks[taskIdx])
  /\ skipped' = skipped + 1
  /\ taskIdx' = taskIdx + 1
  /\ settled' = NotSettled
  /\ NoChild
  /\ UNCHANGED <<retry, tasks, disk, runnerPc, completed, errored>>

(* The loop is over: run_all_tasks returns its counters. *)
RunnerFinish ==
  /\ runnerPc = "loop"
  /\ UNCHANGED notQueueVars
  /\ taskIdx > Len(tasks)
  /\ runnerPc' = "finished"
  /\ settled' = NotSettled
  /\ NoChild
  /\ UNCHANGED <<retry, tasks, disk, taskIdx, completed, skipped, errored>>

(* execute_task of a pending task, up to the await of run_agent_once: the  *)
(* child process starts executeTaskWithRetry with fresh locals.            *)
ExecuteTaskStart ==
  /\ runnerPc = "loop"
  /\ UNCHANGED notQueueVars
  /\ taskIdx <= Len(tasks)
  /\ IsExecutable(tasks[taskIdx])
  /\ runnerPc' = "waiting"
  /\ ctlPc' = "loop"
  /\ attempts' = 0
  /\ needsContinue' = TRUE
  /\ finalStatus' = "done"
  /\ errorMessage' = Null
  /\ lastSemanticsResult' = Null
  /\ sessionId' = Null
  /\ executions' = <<>>
  /\ agentResult' = NoAgentResult
  /\ childOut' = NoChildOut
  /\ invocations' = <<>>
  /\ settled' = NotSettled
  /\ UNCHANGED <<retry, tasks, disk, taskIdx, completed, skipped, errored>>

(* execute_task throws before the child is spawned (a spec_file or the     *)
(* agent script is missing); its catch makes the task failed.              *)
ExecuteTaskPrecheckFail ==
  /\ runnerPc = "loop"
  /\ UNCHANGED notQueueVars
  /\ taskIdx <= Len(tasks)
  /\ IsExecutable(tasks[taskIdx])
  /\ FinishTask("error", "exception", "new_report", "precheck")
  /\ NoChild

(* run_agent_once resolves when the child process has closed. *)
ExecuteTaskResolved ==
  /\ runnerPc = "waiting"
  /\ UNCHANGED notQueueVars
  /\ ctlPc = "exited"
  /\ LET oc == ExecuteTaskOutcome(childOut)
     IN FinishTask(ResultStatus(oc.finalStatus), oc.errorMessage, "new_report",
                   "resolved")
  /\ UNCHANGED ctlVars

(* run_agent_once rejects (its timer fired and the child got SIGTERM, or   *)
(* the spawn failed); the catch of execute_task makes the task failed.     *)
ExecuteTaskRejected ==
  /\ runnerPc = "waiting"
  /\ UNCHANGED notQueueVars
  /\ ctlPc \in {"loop", "agent", "judge", "after"}
  /\ FinishTask("error", "exception", "new_report", "rejected")
  /\ NoChild

(* write_task_report throws: execute_task rejects and the catch of         *)
(* run_all_tasks records the error.                                        *)
ExecuteTaskReportFails ==
  /\ runnerPc = "waiting"
  /\ UNCHANGED notQueueVars
  /\ ctlPc = "exited"
  /\ FinishTask("error", "exception", Null, "report_failed")
  /\ NoChild

(***************************************************************************)
(* The judge client on its own: one call of interpretSemanticsViaLLM.      *)
(*   judgePc   "idle", "calling" (runCallLLMOnce pending), "returned"      *)
(*   judgeRaw  what the call-llm subprocess does                           *)
(*   judgeVerdict  what interpretSemanticsViaLLM returned                  *)
(***************************************************************************)
NoJudgeRaw ==
  [settle |-> "none", code |-> 0, signal |-> FALSE, stderr |-> "",
   stdout |-> NoStdout]

NoVerdict == [threw |-> FALSE, result |-> "none", reasons |-> "none"]

JudgeIdle ==
  /\ judgePc = "idle"
  /\ judgeRaw = NoJudgeRaw
  /\ judgeVerdict = NoVerdict

(* interpretSemanticsViaLLM runs to its return (or to a throw). *)
JudgeReturn ==
  /\ judgePc = "calling"
  /\ judgeVerdict' = interpretSemanticsViaLLM(judgeRaw)
  /\ judgePc' = "returned"
  /\ UNCHANGED <<judgeRaw, notJudgeVars>>

(***************************************************************************)
(* The assistant stream filter, pipeThroughAssistantFilter.                *)
(* A text is a sequence of one-character strings.  An event is one parsed  *)
(* NDJSON line: [type, role, parts, session_id], where parts are the text  *)
(* items of message.content and role is message.role.                      *)
(*   filterPc  "idle", "streaming", "ended"                                *)
(*   lastAssistantOutput, lastUserOutput, knownUserPrompts   the locals;   *)
(*             knownUserPrompts is kept in insertion order                 *)
(*   filterSessionId   the local sessionId of the filter                   *)
(*   written   the assistant text emitted so far, concatenated             *)
(*   delivered the transcript and session id handed over at end of stream  *)
(*   fedCount  the number of lines processed                               *)
(*   cumulative  history: every line so far was an assistant event whose   *)
(*             text starts with the text of the one before                 *)
(*   lastFed   history: the text of the last assistant event               *)
(*   lastStep  history: what the last line did: the text it diffed, the    *)
(*             lastAssistantOutput before it, what it emitted, resetText   *)
(*             (its text when that neither equals nor starts with the      *)
(*             lastAssistantOutput before it), afterReset (the resetText   *)
(*             of the line before)                                         *)
(*   callerSessionId  extractedSessionId of the caller, which the          *)
(*             onSessionId callback assigns                                *)
(*   lastSessionIdSeen  history: the session_id of the last line that had  *)
(*             one                                                         *)
(***************************************************************************)
NullLiteral == <<"n", "u", "l", "l">>

AssistantTexts ==
  {<<"n">>, <<"n", "u">>, <<"n", "u", "l">>, NullLiteral, <<"u">>,
   <<"u", " ", "n">>}

UserTexts == {<<"u">>, <<"u", " ", "n">>}

AssistantEvents ==
  [type : {"assistant"}, role : {"assistant"},
   parts : {<<t>> : t \in AssistantTexts}
           \cup {<<(<<"n">>), (<<"n">>)>>, <<(<<"n">>), (<<"u">>)>>},
   session_id : {Null, "s1"}]

UserEvents ==
  [type : {"user"}, role : {"user"}, parts : {<<t>> : t \in UserTexts},
   session_id : SessionIds]

OtherEvents ==
  {[type |-> "system", role |-> "none", parts |-> <<(<<"n">>)>>,
    session_id |-> "s2"],
   [type |-> "other", role |-> "user", parts |-> <<(<<"n">>)>>,
    session_id |-> Null]}

StreamEvents == AssistantEvents \cup UserEvents \cup OtherEvents

NoLine == [type |-> "none", role |-> "none", parts |-> <<>>, session_id |-> Null]

(* What the buffer can hold at end of stream: nothing, or a last line      *)
(* without a newline.                                                      *)
FinalLines ==
  {NoLine,
   [type |-> "assistant", role |-> "assistant",
    parts |-> <<(<<"n", "u">>)>>, session_id |-> Null],
   [type |-> "assistant", role |-> "assistant",
    parts |-> <<NullLiteral>>, session_id |-> "s2"],
   [type |-> "system", role |-> "none", parts |-> <<>>, session_id |-> "s1"]}

(* String.prototype.startsWith *)
StartsWith(s, p) == Len(p) <= Len(s) /\ SubSeq(s, 1, Len(p)) = p

(* s.slice(k) *)
Slice(s, k) == SubSeq(s, k + 1, Len(s))

RECURSIVE TrimStart(_)
TrimStart(s) ==
  IF s # <<>> /\ Head(s) = " " THEN TrimStart(Tail(s)) ELSE s

RECURSIVE TrimEnd(_)
TrimEnd(s) ==
  IF s # <<>> /\ s[Len(s)] = " " THEN TrimEnd(SubSeq(s, 1, Len(s) - 1)) ELSE s

(* String.prototype.trim *)
Trim(s) == TrimEnd(TrimStart(s))

(* parts.join("") *)
RECURSIVE Join(_)
Join(parts) == IF parts = <<>> THEN <<>> ELSE Head(parts) \o Join(Tail(parts))

(* The parts pushed by extractAssistantText: an empty item and an item     *)
(* already seen are not pushed.                                            *)
RECURSIVE DistinctParts(_, _)
DistinctParts(parts, seen) ==
  IF parts = <<>> THEN <<>>
  ELSE IF Head(parts) = <<>> \/ Head(parts) \in seen
  THEN DistinctParts(Tail(parts), seen)
  ELSE <<Head(parts)>> \o DistinctParts(Tail(parts), seen \cup {Head(parts)})

(* extractSessionId: the session_id when it is a non-empty string. *)
extractSessionId(e) == e.session_id

(* extractUserText: null is written as the empty text, both are falsy. *)
extractUserText(e) ==
  IF e.type = "user"
  THEN Join(SelectSeq(e.parts, LAMBDA t : t # <<>>))
  ELSE <<>>

extractAssistantText(e) ==
  IF e.type \in {"user", "system"} THEN <<>>
  ELSE IF e.role = "user" THEN <<>>
  ELSE IF e.role = "assistant" THEN Join(DistinctParts(e.parts, {}))
  ELSE <<>>

(* if (text && text !== "null" && text.length > 0) *)
Usable(text) == text # <<>> /\ text # NullLiteral

(* The loop over knownUserPrompts that removes a known prompt from the     *)
(* start of the assistant text.                                            *)
RECURSIVE StripPrompts(_, _, _)
StripPrompts(text, prompts, i) ==
  IF i > Len(prompts) THEN text
  ELSE IF prompts[i] # <<>> /\ StartsWith(Trim(text), Trim(prompts[i]))
  THEN LET rest == Trim(Slice(Trim(text), Len(Trim(prompts[i]))))
       IN IF rest = <<>> THEN <<>> ELSE StripPrompts(rest, prompts, i + 1)
  ELSE StripPrompts(text, prompts, i + 1)

(* The assistant text that is diffed against lastAssistantOutput. *)
CandidateText(text, prompts) ==
  IF Usable(text) THEN StripPrompts(text, prompts, 1) ELSE text

(* The diff against lastAssistantOutput: what is emitted and the new       *)
(* lastAssistantOutput.                                                    *)
AssistantDiff(text, last) ==
  IF ~Usable(text) THEN [emit |-> <<>>, last |-> last]
  ELSE IF StartsWith(text, last)
  THEN IF Slice(text, Len(last)) # <<>>
       THEN [emit |-> Slice(text, Len(last)), last |-> text]
       ELSE [emit |-> <<>>, last |-> last]
  ELSE IF text # last THEN [emit |-> text, last |-> text]
  ELSE [emit |-> <<>>, last |-> last]

(* knownUserPrompts.add(userText.trim()) *)
AddPrompt(prompts, text) ==
  IF \E i \in 1..Len(prompts) : prompts[i] = text THEN prompts
  ELSE Append(prompts, text)

(* The session id after a line that carries x. *)
UpdatedSessionIdKeepFirst(current, x) == IF current = Null THEN x ELSE current

UpdatedSessionId(current, x) ==
  IF x # Null /\ (current = Null \/ x # current) THEN x ELSE current

NoStep ==
  [kind |-> "none", candidate |-> <<>>, before |-> <<>>, emit |-> <<>>,
   resetText |-> <<>>, afterReset |-> <<>>]

NoDelivery == [done |-> FALSE, text |-> <<>>, session_id |-> Null]

FilterIdle ==
  /\ filterPc = "idle"
  /\ lastAssistantOutput = <<>>
  /\ lastUserOutput = <<>>
  /\ knownUserPrompts = <<>>
  /\ filterSessionId = Null
  /\ written = <<>>
  /\ delivered = NoDelivery
  /\ fedCount = 0
  /\ cumulative = TRUE
  /\ lastFed = <<>>
  /\ lastStep = NoStep
  /\ callerSessionId = Null
  /\ lastSessionIdSeen = Null

(* The data handler for one complete line that parses to the event e. *)
FilterLine(e) ==
  /\ filterPc = "streaming"
  /\ fedCount < MaxEvents
  /\ LET userText == extractUserText(e)
         prompts == IF Usable(userText)
                    THEN AddPrompt(knownUserPrompts, Trim(userText))
                    ELSE knownUserPrompts
         text == extractAssistantText(e)
         cand == CandidateText(text, prompts)
         d == AssistantDiff(cand, lastAssistantOutput)
         isAssistant == e.type = "assistant" /\ e.role = "assistant"
         isReset == /\ cand # <<>>
                    /\ cand # lastAssistantOutput
                    /\ ~StartsWith(cand, lastAssistantOutput)
     IN /\ filterSessionId' =
             UpdatedSessionId(filterSessionId, extractSessionId(e))
        /\ knownUserPrompts' = prompts
        /\ lastUserOutput' = IF Usable(userText) THEN userText
                             ELSE lastUserOutput
        /\ lastAssistantOutput' = d.last
        /\ written' = written \o d.emit
        /\ cumulative' = (cumulative /\ isAssistant /\ StartsWith(text, lastFed))
        /\ lastFed' = IF isAssistant THEN text ELSE lastFed
        /\ lastStep' =
             [kind |-> "line", candidate |-> cand,
              before |-> lastAssistantOutput, emit |-> d.emit,
              resetText |-> IF isReset THEN cand ELSE <<>>,
              afterReset |-> lastStep.resetText]
  /\ callerSessionId' = IF filterSessionId' # filterSessionId
                        THEN filterSessionId' ELSE callerSessionId
  /\ lastSessionIdSeen' = IF extractSessionId(e) # Null
                          THEN extractSessionId(e) ELSE lastSessionIdSeen
  /\ fedCount' = fedCount + 1
  /\ UNCHANGED <<filterPc, delivered, notFilterVars>>

(* The end handler: a last line left in the buffer is parsed, its session  *)
(* id is taken and its assistant text is printed as it is; then the        *)
(* callbacks get lastAssistantOutput and the session id.                   *)
FilterEnd(e) ==
  /\ filterPc = "streaming"
  /\ filterPc' = "ended"
  /\ LET extracted == extractAssistantText(e)
     IN /\ filterSessionId' =
             UpdatedSessionId(filterSessionId, extractSessionId(e))
        /\ written' = IF Usable(extracted) THEN written \o extracted
                      ELSE written
        /\ delivered' = [done |-> TRUE, text |-> lastAssistantOutput,
                         session_id |-> filterSessionId']
  /\ lastStep' =
       [NoStep EXCEPT !.kind = "end",
                      !.candidate =
                        CandidateText(extractAssistantText(e), knownUserPrompts),
                      !.before = lastAssistantOutput]
  /\ callerSessionId' = IF filterSessionId' # Null
                        THEN filterSessionId' ELSE callerSessionId
  /\ lastSessionIdSeen' = IF extractSessionId(e) # Null
                          THEN extractSessionId(e) ELSE lastSessionIdSeen
  /\ UNCHANGED <<lastAssistantOutput, lastUserOutput, knownUserPrompts,
                 fedCount, cumulative, lastFed, notFilterVars>>

(***************************************************************************)
(* save_task_file and a reader of the queue file.                          *)
(* A document is the status of each task; its text is a sequence of        *)
(* chunks, "{", one chunk per task, "}".  The file system is a directory   *)
(* (path -> inode, 0 when the path does not exist) and the content of each *)
(* inode; an open file keeps its inode whatever the directory does.        *)
(*   savePc    "idle", "open" (save_task_file called), "writing" (the      *)
(*             temp file is open), "written", "killed"                     *)
(*   memDoc    taskFile in memory                                          *)
(*   committed history: the last document a save has finished              *)
(*   writerFd  the inode fsp.writeFile writes to                           *)
(*   savesStarted  the number of calls of save_task_file                   *)
(*   readerFd  the inode the reader has open, 0 when none                  *)
(*   readerExpect  history: the texts of the previous and of the new       *)
(*             document when the reader opened the file                    *)
(*   readerSeen  what the reader read; readAt: savePc at that moment       *)
(***************************************************************************)
TaskStatuses == {"pending", "done", "error"}

(* JSON.stringify(config, null, 2) + "\n" *)
Serialize(doc) == <<"{">> \o [i \in 1..NumTasks |-> doc[i]] \o <<"}">>

(* JSON.parse accepts the text. *)
ParsesAsDocument(text) ==
  /\ Len(text) >= 2
  /\ text[1] = "{"
  /\ text[Len(text)] = "}"
  /\ \A i \in 2..(Len(text) - 1) : text[i] \in TaskStatuses

NotRead == <<"unread">>

(* The path fsp.writeFile is given: tempPath. *)
SaveTargetInPlace == "queue"

SaveTarget == "tmp"

SaveIdle ==
  /\ savePc = "idle"
  /\ memDoc = [i \in 1..NumTasks |-> "pending"]
  /\ committed = memDoc
  /\ fsDir = [queue |-> 1, tmp |-> 0]
  /\ fsInodes = [n \in 1..(MaxSaves + 1) |-> IF n = 1 THEN Serialize(memDoc) ELSE <<>>]
  /\ writerFd = 0
  /\ savesStarted = 0
  /\ readerFd = 0
  /\ readerExpect = {}
  /\ readerSeen = NotRead
  /\ readAt = "none"

(* update_task_status (or a reset) changes taskFile in memory and          *)
(* save_task_file is called.                                               *)
SaveStart(i, st) ==
  /\ savePc = "idle"
  /\ savesStarted < MaxSaves
  /\ memDoc' = [memDoc EXCEPT ![i] = st]
  /\ savesStarted' = savesStarted + 1
  /\ savePc' = "open"
  /\ UNCHANGED <<committed, fsDir, fsInodes, writerFd, readerFd, readerExpect,
                 readerSeen, readAt, notSaveVars>>

(* fsp.writeFile opens its path: the file is created, or truncated when it *)
(* exists.                                                                 *)
SaveOpen ==
  /\ savePc = "open"
  /\ IF fsDir[SaveTarget] = 0
     THEN /\ fsDir' = [fsDir EXCEPT ![SaveTarget] = savesStarted + 1]
          /\ writerFd' = savesStarted + 1
          /\ fsInodes' = [fsInodes EXCEPT ![savesStarted + 1] = <<>>]
     ELSE /\ writerFd' = fsDir[SaveTarget]
          /\ fsInodes' = [fsInodes EXCEPT ![fsDir[SaveTarget]] = <<>>]
          /\ UNCHANGED fsDir
  /\ savePc' = "writing"
  /\ UNCHANGED <<memDoc, committed, savesStarted, readerFd, readerExpect,
                 readerSeen, readAt, notSaveVars>>

(* fsp.writeFile writes the next part of the content; after the last one   *)
(* it closes the file.                                                     *)
SaveWriteChunk ==
  /\ savePc = "writing"
  /\ LET content == Serialize(memDoc)
         k == Len(fsInodes[writerFd]) + 1
     IN /\ fsInodes' = [fsInodes EXCEPT ![writerFd] = Append(@, content[k])]
        /\ savePc' = IF k = Len(content) THEN "written" ELSE "writing"
  /\ UNCHANGED <<memDoc, committed, fsDir, writerFd, savesStarted, readerFd,
                 readerExpect, readerSeen, readAt, notSaveVars>>

(* fsp.rename(tempPath, resolvedPath) *)
SaveRename ==
  /\ savePc = "written"
  /\ fsDir.tmp # 0
  /\ fsDir' = [queue |-> fsDir.tmp, tmp |-> 0]
  /\ committed' = memDoc
  /\ writerFd' = 0
  /\ savePc' = "idle"
  /\ UNCHANGED <<memDoc, fsInodes, savesStarted, readerFd, readerExpect,
                 readerSeen, readAt, notSaveVars>>

(* The writer process is killed inside save_task_file. *)
SaveKilled ==
  /\ savePc \in {"open", "writing", "written"}
  /\ savePc' = "killed"
  /\ writerFd' = 0
  /\ UNCHANGED <<memDoc, committed, fsDir, fsInodes, savesStarted, readerFd,
                 readerExpect, readerSeen, readAt, notSaveVars>>

(* A new run after the kill: load_task_file reads the queue file. *)
SaveRestart ==
  /\ savePc = "killed"
  /\ ParsesAsDocument(fsInodes[fsDir.queue])
  /\ memDoc' = [i \in 1..NumTasks |-> fsInodes[fsDir.queue][i + 1]]
  /\ savePc' = "idle"
  /\ UNCHANGED <<committed, fsDir, fsInodes, writerFd, savesStarted, readerFd,
                 readerExpect, readerSeen, readAt, notSaveVars>>

(* A reader opens the queue file. *)
ReaderOpen ==
  /\ readerFd = 0
  /\ readerFd' = fsDir.queue
  /\ readerExpect' = {Serialize(committed), Serialize(memDoc)}
  /\ readerSeen' = NotRead
  /\ readAt' = "none"
  /\ UNCHANGED <<savePc, memDoc, committed, fsDir, fsInodes, writerFd,
                 savesStarted, notSaveVars>>

(* The reader reads the file it has open. *)
ReaderRead ==
  /\ readerFd # 0
  /\ readerSeen' = fsInodes[readerFd]
  /\ readAt' = savePc
  /\ readerFd' = 0
  /\ UNCHANGED <<savePc, memDoc, committed, fsDir, fsInodes, writerFd,
                 savesStarted, readerExpect, notSaveVars>>

(***************************************************************************)
(* One agent invocation after the other: runCursorAgentInitial and         *)
(* runCursorAgentResume (run_agent_once has the same promise), the events  *)
(* of the child process, and the callers' loops.                           *)
(* The text the child writes is a sequence of chunks, each known by its    *)
(* length; a transcript is known by its length.                            *)
(*   callNo     the invocations started so far; the last one is current    *)
(*   alive      the subprocess of each invocation is running               *)
(*   signalled  the invocations whose child was sent SIGTERM               *)
(*   streamPartial  hasStreamFlag(helpText)                                *)
(*   timer      "idle", "armed", "fired", "cleared"                        *)
(*   settle     the promise: "pending", "resolved", "rejected_timeout",    *)
(*              "rejected_error"                                           *)
(*   settleChanges  history: how often the promise changed its state       *)
(*   produced   the chunks the child has written to its stdout             *)
(*   fed        how many of them the data handler has received             *)
(*   stdout     the variable stdout of the invocation (a length)           *)
(*   streamEnded, closeEmitted  "end" of child.stdout, "close" of child    *)
(*   spawnErr   "no", "pending" (spawn failed), "emitted"                  *)
(*   resultStdout  stdout of the result, -1 without a result               *)
(*   judgeInput    executionSummary given to the judge, -1 when none       *)
(***************************************************************************)
SummaryLimit == 5000

ChunkSizes == {1, SummaryLimit}

RECURSIVE TextLen(_, _)
TextLen(chunks, k) ==
  IF k = 0 THEN 0 ELSE chunks[k] + TextLen(chunks, k - 1)

(* result.stdout.substring(0, 5000) *)
Summary(len) == IF len > SummaryLimit THEN SummaryLimit ELSE len

(* resolve and reject of a promise: the first call settles it. *)
SettleLastWins(cur, outcome) == outcome

Settle(cur, outcome) == IF cur = "pending" THEN outcome ELSE cur

Changes(cur, new) == IF cur = new THEN 0 ELSE 1

(* The event of the child the resolving handler listens to. *)
ResolveOnExit == "exit"

ResolveOn == "close"

InvokeIdle ==
  /\ callNo = 0
  /\ alive = [c \in 1..MaxCalls |-> FALSE]
  /\ signalled = {}
  /\ streamPartial = FALSE
  /\ timer = "idle"
  /\ settle = "pending"
  /\ settleChanges = 0
  /\ produced = <<>>
  /\ fed = 0
  /\ stdout = 0
  /\ streamEnded = FALSE
  /\ closeEmitted = FALSE
  /\ spawnErr = "no"
  /\ resultStdout = -1
  /\ judgeInput = -1

(* spawn, the handlers and setTimeout of one invocation. *)
StartCall(started) ==
  /\ callNo < MaxCalls
  /\ callNo' = callNo + 1
  /\ alive' = [alive EXCEPT ![callNo + 1] = started]
  /\ spawnErr' = IF started THEN "no" ELSE "pending"
  /\ timer' = "armed"
  /\ settle' = "pending"
  /\ settleChanges' = 0
  /\ produced' = <<>>
  /\ fed' = 0
  /\ stdout' = 0
  /\ streamEnded' = FALSE
  /\ closeEmitted' = FALSE
  /\ resultStdout' = -1
  /\ judgeInput' = -1
  /\ UNCHANGED <<signalled, streamPartial, notInvokeVars>>

(* executeTaskWithRetry: the first attempt, and the next attempt after a   *)
(* judged result.                                                          *)
NextAttempt(started) ==
  /\ callNo = 0 \/ judgeInput # -1
  /\ StartCall(started)

(* run_all_tasks: the next task, after the invocation of the previous one  *)
(* was rejected or its task is over.                                       *)
NextTask(started) ==
  /\ callNo > 0
  /\ settle \in {"rejected_timeout", "rejected_error"} \/ judgeInput # -1
  /\ StartCall(started)

(* The child writes to its stdout. *)
ChildWrites(size) ==
  /\ callNo > 0
  /\ alive[callNo]
  /\ Len(produced) < MaxChunks
  /\ produced' = Append(produced, size)
  /\ UNCHANGED <<callNo, alive, signalled, streamPartial, timer, settle,
                 settleChanges, fed, stdout, streamEnded, closeEmitted,
                 spawnErr, resultStdout, judgeInput, notInvokeVars>>

(* "data" of child.stdout: the extractor keeps the text to itself until    *)
(* the stream ends; without it the handler appends to stdout.              *)
StreamData ==
  /\ fed < Len(produced)
  /\ ~streamEnded
  /\ fed' = fed + 1
  /\ stdout' = IF streamPartial THEN stdout ELSE TextLen(produced, fed + 1)
  /\ UNCHANGED <<callNo, alive, signalled, streamPartial, timer, settle,
                 settleChanges, produced, streamEnded, closeEmitted, spawnErr,
                 resultStdout, judgeInput, notInvokeVars>>

(* A subprocess ends, by itself or by the signal. *)
ChildExit(c) ==
  /\ alive[c]
  /\ alive' = [alive EXCEPT ![c] = FALSE]
  /\ UNCHANGED <<callNo, signalled, streamPartial, timer, settle,
                 settleChanges, produced, fed, stdout, streamEnded,
                 closeEmitted, spawnErr, resultStdout, judgeInput,
                 notInvokeVars>>

(* "end" of child.stdout, once the child is gone and its output has been   *)
(* read: the extractor hands over its text with onText, when it has any.   *)
StreamEnd ==
  /\ callNo > 0
  /\ ~alive[callNo]
  /\ fed = Len(produced)
  /\ ~streamEnded
  /\ streamEnded' = TRUE
  /\ stdout' = IF streamPartial /\ fed > 0 THEN TextLen(produced, fed) ELSE stdout
  /\ UNCHANGED <<callNo, alive, signalled, streamPartial, timer, settle,
                 settleChanges, produced, fed, closeEmitted, spawnErr,
                 resultStdout, judgeInput, notInvokeVars>>

(* child.on("close"): the process has ended and its streams are closed.    *)
ChildClose ==
  /\ callNo > 0
  /\ ~alive[callNo]
  /\ ResolveOn = "close" => streamEnded
  /\ spawnErr # "pending"
  /\ ~closeEmitted
  /\ closeEmitted' = TRUE
  /\ timer' = IF timer = "armed" THEN "cleared" ELSE timer
  /\ settle' = Settle(settle, "resolved")
  /\ settleChanges' = settleChanges + Changes(settle, settle')
  /\ resultStdout' = IF settle' = "resolved" THEN stdout ELSE resultStdout
  /\ UNCHANGED <<callNo, alive, signalled, streamPartial, produced, fed,
                 stdout, streamEnded, spawnErr, judgeInput, notInvokeVars>>

(* child.on("error"): the process could not be spawned. *)
ChildError ==
  /\ spawnErr = "pending"
  /\ spawnErr' = "emitted"
  /\ timer' = IF timer = "armed" THEN "cleared" ELSE timer
  /\ settle' = Settle(settle, "rejected_error")
  /\ settleChanges' = settleChanges + Changes(settle, settle')
  /\ UNCHANGED <<callNo, alive, signalled, streamPartial, produced, fed,
                 stdout, streamEnded, closeEmitted, resultStdout, judgeInput,
                 notInvokeVars>>

(* The setTimeout callback. *)
TimerFires ==
  /\ timer = "armed"
  /\ timer' = "fired"
  /\ signalled' = signalled \cup {callNo}
  /\ settle' = Settle(settle, "rejected_timeout")
  /\ settleChanges' = settleChanges + Changes(settle, settle')
  /\ UNCHANGED <<callNo, alive, streamPartial, produced, fed, stdout,
                 streamEnded, closeEmitted, spawnErr, resultStdout,
                 judgeInput, notInvokeVars>>

(* executeTaskWithRetry after the await: the judge gets executionSummary.  *)
JudgeCall ==
  /\ settle = "resolved"
  /\ judgeInput = -1
  /\ judgeInput' = Summary(resultStdout)
  /\ UNCHANGED <<callNo, alive, signalled, streamPartial, timer, settle,
                 settleChanges, produced, fed, stdout, streamEnded,
                 closeEmitted, spawnErr, resultStdout, notInvokeVars>>

(***************************************************************************)
(* validate_config and the start of run_all_tasks.                         *)
(* A task of the queue file is [name, id, prompt, spec_file].  name and    *)
(* prompt are strings, Null when the field is missing.  An id is known by  *)
(* the text String(id).trim() gives (key), the length of that text (len),  *)
(* and the white space around it (pad).  A spec_file is known by its kind  *)
(* ("absent" for undefined or null, "string", "array", "number"), the      *)
(* number of paths it names and whether those files exist.                 *)
(*   queue    the parsed queue file: [isArray, tasks, hasPrompts]; tasks   *)
(*            is an array or not, the prompts field is there or not        *)
(*   runPc    "start", "loaded", "running", "fatal" (validate_config       *)
(*            threw), "crashed" (a TypeError was thrown), "finished"       *)
(*   cursor   the index of the loop of run_all_tasks                       *)
(*   spawned  the agent processes started                                  *)
(*   writes   the calls of save_task_file                                  *)
(*   exitCode the exit code of the process, -1 while it runs               *)
(***************************************************************************)
NoId == [present |-> FALSE, key |-> "", len |-> 0, pad |-> 0]

Id(key, len, pad) == [present |-> TRUE, key |-> key, len |-> len, pad |-> pad]

NoSpecFile == [kind |-> "absent", count |-> 0, exists |-> FALSE]

SpecFile(kind, count, exists) == [kind |-> kind, count |-> count, exists |-> exists]

TaskA ==
  [name |-> "a", id |-> Id("1", 1, 0), prompt |-> "p", spec_file |-> NoSpecFile]

TaskB ==
  [name |-> "b", id |-> Id("2", 1, 0), prompt |-> Null,
   spec_file |-> SpecFile("string", 1, TRUE)]

SampleTasks ==
  {TaskA, TaskB}
  \cup {[TaskB EXCEPT !.name = n] : n \in {Null, ""}}
  \cup {[TaskB EXCEPT !.id = i] :
          i \in {NoId, Id("", 0, 0), Id("", 0, 1), Id("1", 1, 1),
                 Id("long255", 255, 0), Id("long256", 256, 0),
                 Id("long255", 255, 1)}}
  \cup {[TaskB EXCEPT !.prompt = pr, !.spec_file = NoSpecFile] :
          pr \in {Null, "", " ", "p"}}
  \cup {[TaskB EXCEPT !.spec_file = sf] :
          sf \in {SpecFile("string", 1, FALSE), SpecFile("string", 0, FALSE),
                  SpecFile("array", 2, TRUE), SpecFile("array", 2, FALSE)}}
  \cup {[TaskB EXCEPT !.prompt = "p", !.spec_file = sf] :
          sf \in {SpecFile("array", 0, FALSE), SpecFile("number", 0, FALSE)}}

Queues ==
  [isArray : {TRUE}, tasks : [1..NumTasks -> SampleTasks],
   hasPrompts : BOOLEAN]
  \cup {[isArray |-> FALSE, tasks |-> <<>>, hasPrompts |-> TRUE]}

(* task.prompt && typeof task.prompt === "string" && trim().length > 0 *)
HasPrompt(task) == task.prompt \notin {Null, "", " "}

HasSpecFile(task) == task.spec_file.kind # "absent"

(* The body of the loop of validate_config for one task. *)
ValidateTask(task, names, ids) ==
  IF task.name \in {Null, ""} THEN "missing_name"
  ELSE IF task.name \in names THEN "duplicate_name"
  ELSE IF ~task.id.present THEN "missing_id"
  ELSE IF task.id.len = 0 THEN "empty_id"
  ELSE IF task.id.len > 255 THEN "long_id"
  ELSE IF task.id.key \in ids THEN "duplicate_id"
  ELSE IF ~HasPrompt(task) /\ ~HasSpecFile(task) THEN "no_prompt_no_spec_file"
  ELSE IF HasSpecFile(task) /\ task.spec_file.kind \notin {"string", "array"}
  THEN "spec_file_type"
  ELSE IF task.spec_file.kind = "array" /\ task.spec_file.count = 0
  THEN "spec_file_empty"
  ELSE "ok"

RECURSIVE ValidateFrom(_, _, _, _)
ValidateFrom(ts, i, names, ids) ==
  IF i > Len(ts) THEN "ok"
  ELSE IF ValidateTask(ts[i], names, ids) # "ok"
  THEN ValidateTask(ts[i], names, ids)
  ELSE ValidateFrom(ts, i + 1, names \cup {ts[i].name}, ids \cup {ts[i].id.key})

(* validate_config: "ok", or the error it throws. *)
validate_config(config) ==
  IF ~config.isArray THEN "no_tasks_array"
  ELSE ValidateFrom(config.tasks, 1, {}, {})

(* What main does with the exception of run_all_tasks. *)
OnInvalidGoOn == "running"

OnInvalid == "fatal"

ValidateIdle ==
  /\ queue = [isArray |-> FALSE, tasks |-> <<>>, hasPrompts |-> TRUE]
  /\ runPc = "start"
  /\ cursor = 1
  /\ spawned = 0
  /\ writes = 0
  /\ exitCode = -1

(* load_task_file *)
RunLoad ==
  /\ runPc = "start"
  /\ runPc' = "loaded"
  /\ UNCHANGED <<queue, cursor, spawned, writes, exitCode, notValidateVars>>

(* run_all_tasks from validate_config(taskFile) to the head of the loop.   *)
(* The exception of validate_config ends main with exit code 1; so does    *)
(* the TypeError of taskFile.prompts.filter when the file has no prompts.  *)
RunValidate ==
  /\ runPc = "loaded"
  /\ runPc' = IF validate_config(queue) # "ok" THEN OnInvalid
              ELSE IF ~queue.hasPrompts THEN "crashed"
              ELSE "running"
  /\ exitCode' = IF runPc' \in {"fatal", "crashed"} THEN 1 ELSE exitCode
  /\ UNCHANGED <<queue, cursor, spawned, writes, notValidateVars>>

(* One iteration of the loop: the task is executed by an agent process,    *)
(* unless a spec file is missing, and the queue file is saved.             *)
RunTask ==
  /\ runPc = "running"
  /\ cursor <= Len(queue.tasks)
  /\ cursor' = cursor + 1
  /\ spawned' = IF HasSpecFile(queue.tasks[cursor])
                   /\ ~queue.tasks[cursor].spec_file.exists
                THEN spawned ELSE spawned + 1
  /\ writes' = writes + 1
  /\ UNCHANGED <<queue, runPc, exitCode, notValidateVars>>

(* The loop is over; main exits with 0. *)
RunEnd ==
  /\ runPc = "running"
  /\ cursor > Len(queue.tasks)
  /\ runPc' = "finished"
  /\ exitCode' = 0
  /\ UNCHANGED <<queue, cursor, spawned, writes, notValidateVars>>

(***************************************************************************)
(* .flow/.env.  cursor-tasks loads the file with load_cursor_env, and the  *)
(* cursor-agent-task process it spawns, which inherits its environment and *)
(* its working directory, loads the same file with loadEnvFile.  An        *)
(* environment gives each key its value, Null when the variable is not     *)
(* set.  The file is the sequence of its lines: an assignment [key, value] *)
(* or a comment (key "#").                                                 *)
(*   envPc      "idle", "start", "runner_loaded", "child_loaded"           *)
(*   systemEnv  the environment cursor-tasks was started with              *)
(*   envFile    the lines of .flow/.env                                    *)
(*   runnerEnv, childEnv   process.env of cursor-tasks and of the child    *)
(***************************************************************************)
EnvKeys == {"OPENAI_API_KEY", "TASKECHO_API_KEY"}

RECURSIVE load_cursor_env(_, _)
load_cursor_env(env, lines) ==
  IF lines = <<>> THEN env
  ELSE LET l == Head(lines)
       IN load_cursor_env(
            IF l.key # "#" /\ env[l.key] = Null
            THEN [env EXCEPT ![l.key] = l.value] ELSE env,
            Tail(lines))

RECURSIVE loadEnvFile(_, _)
loadEnvFile(env, lines) ==
  IF lines = <<>> THEN env
  ELSE LET l == Head(lines)
       IN loadEnvFile(
            IF l.key \in {"OPENAI_API_KEY", "OPENAI_API_BASE",
                          "CURSOR_TASKS_JUDGE_MODEL"}
            THEN [env EXCEPT ![l.key] = l.value] ELSE env,
            Tail(lines))

EnvIdle ==
  /\ envPc = "idle"
  /\ systemEnv = [k \in EnvKeys |-> Null]
  /\ envFile = <<>>
  /\ runnerEnv = systemEnv
  /\ childEnv = systemEnv

(* main of cursor-tasks: await load_cursor_env() *)
RunnerLoadEnv ==
  /\ envPc = "start"
  /\ runnerEnv' = load_cursor_env(runnerEnv, envFile)
  /\ envPc' = "runner_loaded"
  /\ UNCHANGED <<systemEnv, envFile, childEnv, notEnvVars>>

(* run_agent_once spawns cursor-agent-task with the environment of         *)
(* cursor-tasks, and its main calls loadEnvFile().                         *)
ChildLoadEnv ==
  /\ envPc = "runner_loaded"
  /\ childEnv' = loadEnvFile(runnerEnv, envFile)
  /\ envPc' = "child_loaded"
  /\ UNCHANGED <<systemEnv, envFile, runnerEnv, notEnvVars>>

(***************************************************************************)
(* The data handler of pipeThroughAssistantFilter on chunks.  The stream   *)
(* is a sequence of bytes: "CR", "LF", and the bytes of two event frames,  *)
(* frame A written as the two bytes "a1" "a2" and frame B as the byte "b". *)
(* A line that is neither of them is not a frame or does not parse.        *)
(*   byteStream  what the agent process writes to its stdout               *)
(*   fedBytes    how much of it the data events have delivered             *)
(*   rawBuffer, chunkCount   the locals of the filter                      *)
(***************************************************************************)
FrameA ==
  [type |-> "assistant", role |-> "assistant", parts |-> <<(<<"n">>)>>,
   session_id |-> "s1"]

FrameB ==
  [type |-> "assistant", role |-> "assistant", parts |-> <<(<<"n", "u">>)>>,
   session_id |-> "s2"]

(* rawBuffer.split(/\r?\n/), the last piece included. *)
RECURSIVE SplitLines(_, _)
SplitLines(bytes, line) ==
  IF bytes = <<>> THEN <<line>>
  ELSE IF Head(bytes) = "LF"
  THEN <<IF line # <<>> /\ line[Len(line)] = "CR"
         THEN SubSeq(line, 1, Len(line) - 1) ELSE line>>
       \o SplitLines(Tail(bytes), <<>>)
  ELSE SplitLines(Tail(bytes), Append(line, Head(bytes)))

(* A data handler that forgets the unfinished line. *)
RemainderDropped(lines) == <<>>

(* const lastLine = lines.pop() || ""; rawBuffer = lastLine; *)
Remainder(lines) == lines[Len(lines)]

(* line.trim() on a line of bytes: the CRs at both ends are white space. *)
RECURSIVE TrimCR(_)
TrimCR(line) ==
  IF line = <<>> THEN line
  ELSE IF Head(line) = "CR" THEN TrimCR(Tail(line))
  ELSE IF line[Len(line)] = "CR" THEN TrimCR(SubSeq(line, 1, Len(line) - 1))
  ELSE line

(* A parser that takes the first half of frame A for the frame. *)
ParseLineLenient(line) ==
  IF TrimCR(line) \in {<<"a1", "a2">>, <<"a1">>} THEN FrameA
  ELSE IF TrimCR(line) = <<"b">> THEN FrameB
  ELSE NoLine

(* The event a line parses to; NoLine for a blank line (skipped by         *)
(* !line.trim()), for a line that is not a frame (continue) and for a line *)
(* JSON.parse rejects (caught): half a frame, two frames on one line, a    *)
(* frame with a CR inside one of its strings.                              *)
ParseLine(line) ==
  IF TrimCR(line) = <<"a1", "a2">> THEN FrameA
  ELSE IF TrimCR(line) = <<"b">> THEN FrameB
  ELSE NoLine

(* The body of the loop over the complete lines, on the locals             *)
(* [last, prompts, userOut, sid, out] (lastAssistantOutput,                *)
(* knownUserPrompts, lastUserOutput, sessionId, the text emitted).         *)
FeedLine(st, e) ==
  IF e = NoLine THEN st
  ELSE LET userText == extractUserText(e)
           prompts == IF Usable(userText)
                      THEN AddPrompt(st.prompts, Trim(userText))
                      ELSE st.prompts
           d == AssistantDiff(CandidateText(extractAssistantText(e), prompts),
                              st.last)
       IN [last |-> d.last,
           prompts |-> prompts,
           userOut |-> IF Usable(userText) THEN userText ELSE st.userOut,
           sid |-> UpdatedSessionId(st.sid, extractSessionId(e)),
           out |-> st.out \o d.emit]

RECURSIVE FeedLines(_, _, _)
FeedLines(st, lines, upTo) ==
  IF upTo = 0 THEN st
  ELSE FeedLine(FeedLines(st, lines, upTo - 1), ParseLine(lines[upTo]))

ChunkIdle ==
  /\ byteStream = <<>>
  /\ fedBytes = 0
  /\ rawBuffer = <<>>
  /\ chunkCount = 0

(* One data event with the next n bytes of the stream. *)
FilterData(n) ==
  /\ filterPc = "streaming"
  /\ fedBytes + n <= Len(byteStream)
  /\ LET lines == SplitLines(rawBuffer
                             \o SubSeq(byteStream, fedBytes + 1, fedBytes + n),
                             <<>>)
         st == FeedLines([last |-> lastAssistantOutput,
                          prompts |-> knownUserPrompts,
                          userOut |-> lastUserOutput,
                          sid |-> filterSessionId,
                          out |-> written],
                         lines, Len(lines) - 1)
     IN /\ rawBuffer' = Remainder(lines)
        /\ lastAssistantOutput' = st.last
        /\ knownUserPrompts' = st.prompts
        /\ lastUserOutput' = st.userOut
        /\ filterSessionId' = st.sid
        /\ written' = st.out
        /\ callerSessionId' = IF st.sid # filterSessionId THEN st.sid
                              ELSE callerSessionId
  /\ fedBytes' = fedBytes + n
  /\ chunkCount' = chunkCount + 1
  /\ UNCHANGED <<byteStream, filterPc, delivered, fedCount, cumulative,
                 lastFed, lastStep, lastSessionIdSeen, queueVars, judgeVars,
                 saveVars, invokeVars, validateVars, envVars>>

(* The end event: the end handler with what is left in rawBuffer. *)
FilterChunksEnd ==
  /\ fedBytes = Len(byteStream)
  /\ FilterEnd(ParseLine(rawBuffer))

(***************************************************************************)
(* The specifications.                                                     *)
(***************************************************************************)
ChildIdle ==
  /\ ctlPc = "idle"
  /\ attempts = 0
  /\ needsContinue = TRUE
  /\ finalStatus = "done"
  /\ errorMessage = Null
  /\ lastSemanticsResult = Null
  /\ sessionId = Null
  /\ executions = <<>>
  /\ agentResult = NoAgentResult
  /\ childOut = NoChildOut
  /\ invocations = <<>>

RunnerAtStart ==
  /\ disk = tasks
  /\ taskIdx = 1
  /\ runnerPc = "loop"
  /\ completed = 0
  /\ skipped = 0
  /\ errored = 0
  /\ settled = NotSettled

(* No queue run: the queue variables of the specifications that are not    *)
(* about the queue.                                                        *)
QueueIdle ==
  /\ retry = 1
  /\ tasks = [i \in 1..NumTasks |-> CHOOSE t \in InitialTasks : t.status = "pending"]
  /\ RunnerAtStart
  /\ ChildIdle

(* A queue run: cursor-tasks started on a queue file with --retry. *)
Init ==
  /\ retry \in 1..MaxRetry
  /\ tasks \in [1..NumTasks -> InitialTasks]
  /\ RunnerAtStart
  /\ ChildIdle
  /\ JudgeIdle
  /\ FilterIdle
  /\ SaveIdle
  /\ InvokeIdle
  /\ ValidateIdle
  /\ EnvIdle
  /\ ChunkIdle

Next ==
  \/ RunnerSkip
  \/ RunnerFinish
  \/ ExecuteTaskStart
  \/ ExecuteTaskPrecheckFail
  \/ ExecuteTaskResolved
  \/ ExecuteTaskRejected
  \/ ExecuteTaskReportFails
  \/ CtlLoopHead
  \/ \E o \in AgentOutcomes : CtlAgentSettle(o)
  \/ CtlNotInstalled
  \/ \E raw \in JudgeOutcomes : CtlJudge(raw)
  \/ CtlReturn

Spec == Init /\ [][Next]_vars

(***************************************************************************)
(* TaskEcho.  Both programs report to TaskEcho when it is enabled: the     *)
(* controller through pushLogToTaskEcho and the AI-reply push, the runner  *)
(* in execute_task and run_all_tasks.  The client, ./taskecho-client, is   *)
(* outside the sources; a call of it is modelled by how it settles.  The   *)
(* run below has TaskEcho enabled and every call of it rejecting, at once  *)
(* or after the client's timeout.                                          *)
(***************************************************************************)
EchoOutcomes == {"rejects", "times_out"}

EchoEscapesOnFailure(o) == o \in EchoOutcomes

(* Whether a call that settles as o throws into the code around the call   *)
(* site: every call is inside a try whose catch only logs.                 *)
EchoEscapes(o) == FALSE

(* A step with a TaskEcho call site in it: the step itself, or, if the     *)
(* call throws into the surrounding code, what that code's catch does.     *)
WithEcho(o, step, caught) == IF EchoEscapes(o) THEN caught ELSE step

(* The catch of the retry loop for an exception thrown in the loop body.   *)
CtlEchoThrows ==
  /\ ctlPc \in {"loop", "agent", "judge", "after"}
  /\ UNCHANGED notQueueVars
  /\ errorMessage' = "err_message"
  /\ finalStatus' = "error"
  /\ executions' =
       Append(executions,
              [index |-> attempts, conclusion |-> "exec_error",
               sessionId |-> Null])
  /\ ctlPc' = "after"
  /\ UNCHANGED <<runnerVars, attempts, needsContinue, lastSemanticsResult,
                 sessionId, agentResult, childOut, invocations>>

(* An exception thrown inside the catch of run_all_tasks leaves the loop:  *)
(* main prints it and exits, no further task is run or saved.              *)
RunnerEchoThrows ==
  /\ runnerPc \in {"loop", "waiting"}
  /\ UNCHANGED notQueueVars
  /\ runnerPc' = "finished"
  /\ NoChild
  /\ UNCHANGED <<retry, tasks, disk, taskIdx, completed, skipped, errored,
                 settled>>

(* The largest --retry of the runs with TaskEcho. *)
EchoRetry == 2

(* The queue run of Init on a queue whose tasks after the first one are    *)
(* pending.                                                                *)
InitEcho ==
  /\ Init
  /\ retry <= EchoRetry
  /\ \A i \in 2..NumTasks : tasks[i].status = "pending"

NextEcho ==
  \E e \in EchoOutcomes :
    \/ RunnerSkip
    \/ RunnerFinish
    \/ WithEcho(e, ExecuteTaskStart, ExecuteTaskPrecheckFail)
    \/ WithEcho(e, ExecuteTaskPrecheckFail, RunnerEchoThrows)
    \/ WithEcho(e, ExecuteTaskResolved, ExecuteTaskReportFails)
    \/ WithEcho(e, ExecuteTaskRejected, RunnerEchoThrows)
    \/ WithEcho(e, ExecuteTaskReportFails, RunnerEchoThrows)
    \/ WithEcho(e, CtlLoopHead, CtlEchoThrows)
    \/ \E o \in AgentOutcomes : WithEcho(e, CtlAgentSettle(o), CtlEchoThrows)
    \/ CtlNotInstalled
    \/ \E raw \in JudgeOutcomes : WithEcho(e, CtlJudge(raw), CtlEchoThrows)
    \/ WithEcho(e, CtlReturn, CtlEchoThrows)

SpecEcho == InitEcho /\ [][NextEcho]_vars

(***************************************************************************)
(* The three commands of cursor-tasks on one queue file: the run, --reset  *)
(* and --reset-error.  Here a task also has its prompt, a field that no    *)
(* command writes, and the file can hold what an editor left: a task       *)
(* without status, and a task put back to pending by hand that still has   *)
(* its error_message and report.  A missing status is "absent".            *)
(*   runnerPc  "loop" for the run; "reset", "reset_error" in the loop of   *)
(*             the command, "reset_saved", "reset_error_saved" after its   *)
(*             save_task_file                                              *)
(*   tasks     taskFile.tasks in memory; disk   the queue file             *)
(***************************************************************************)
FileTasks ==
  {[status |-> "pending", error_message |-> Null, report |-> Null,
    prompt |-> "p"],
   [status |-> "done", error_message |-> Null, report |-> "old_report",
    prompt |-> "p"],
   [status |-> "error", error_message |-> "old_error",
    report |-> "old_report", prompt |-> "p"],
   [status |-> "absent", error_message |-> Null, report |-> Null,
    prompt |-> "p"],
   [status |-> "pending", error_message |-> "old_error",
    report |-> "old_report", prompt |-> "p"]}

ResetErrorTaskNotPending ==
  /\ runnerPc = "reset_error"
  /\ taskIdx <= Len(tasks)
  /\ tasks' =
       IF tasks[taskIdx].status # "pending"
       THEN [tasks EXCEPT ![taskIdx] =
               [@ EXCEPT !.status = "pending", !.error_message = Null,
                         !.report = Null]]
       ELSE tasks
  /\ taskIdx' = taskIdx + 1
  /\ UNCHANGED <<retry, disk, runnerPc, completed, skipped, errored, settled,
                 ctlVars, notQueueVars>>

ResetTaskKeepReport ==
  /\ runnerPc = "reset"
  /\ taskIdx <= Len(tasks)
  /\ tasks' =
       IF tasks[taskIdx].status # "pending"
       THEN [tasks EXCEPT ![taskIdx] =
               [@ EXCEPT !.status = "pending", !.error_message = Null]]
       ELSE tasks
  /\ taskIdx' = taskIdx + 1
  /\ UNCHANGED <<retry, disk, runnerPc, completed, skipped, errored, settled,
                 ctlVars, notQueueVars>>

(* One iteration of the loop of reset_tasks. *)
ResetTask ==
  /\ runnerPc = "reset"
  /\ taskIdx <= Len(tasks)
  /\ tasks' =
       IF tasks[taskIdx].status # "pending"
       THEN [tasks EXCEPT ![taskIdx] =
               [@ EXCEPT !.status = "pending", !.error_message = Null,
                         !.report = Null]]
       ELSE tasks
  /\ taskIdx' = taskIdx + 1
  /\ UNCHANGED <<retry, disk, runnerPc, completed, skipped, errored, settled,
                 ctlVars, notQueueVars>>

(* One iteration of the loop of reset_error_tasks. *)
ResetErrorTask ==
  /\ runnerPc = "reset_error"
  /\ taskIdx <= Len(tasks)
  /\ tasks' =
       IF tasks[taskIdx].status = "error"
       THEN [tasks EXCEPT ![taskIdx] =
               [@ EXCEPT !.status = "pending", !.error_message = Null,
                         !.report = Null]]
       ELSE tasks
  /\ taskIdx' = taskIdx + 1
  /\ UNCHANGED <<retry, disk, runnerPc, completed, skipped, errored, settled,
                 ctlVars, notQueueVars>>

(* The loop of either command is over: save_task_file, and the command     *)
(* returns.                                                                *)
ResetSave ==
  /\ runnerPc \in {"reset", "reset_error"}
  /\ taskIdx > Len(tasks)
  /\ disk' = tasks
  /\ runnerPc' = IF runnerPc = "reset" THEN "reset_saved"
                 ELSE "reset_error_saved"
  /\ UNCHANGED <<retry, tasks, taskIdx, completed, skipped, errored, settled,
                 ctlVars, notQueueVars>>

(* cursor-tasks started on a queue file with one of the three commands. *)
InitFiles ==
  /\ retry = 1
  /\ tasks \in [1..NumTasks -> FileTasks]
  /\ disk = tasks
  /\ taskIdx = 1
  /\ runnerPc \in {"loop", "reset", "reset_error"}
  /\ completed = 0
  /\ skipped = 0
  /\ errored = 0
  /\ settled = NotSettled
  /\ ChildIdle
  /\ JudgeIdle
  /\ FilterIdle
  /\ SaveIdle
  /\ InvokeIdle
  /\ ValidateIdle
  /\ EnvIdle
  /\ ChunkIdle

NextFiles ==
  \/ Next
  \/ ResetTask
  \/ ResetErrorTask
  \/ ResetSave

SpecFiles == InitFiles /\ [][NextFiles]_vars

(* cursor-tasks is started in a directory with a .flow/.env file. *)
InitEnv ==
  /\ envPc = "start"
  /\ systemEnv \in [EnvKeys -> {Null, "sys"}]
  /\ \E n \in 0..MaxEnvLines :
       envFile \in [1..n -> [key : EnvKeys, value : {"file"}]
                            \cup {[key |-> "#", value |-> ""]}]
  /\ runnerEnv = systemEnv
  /\ childEnv = systemEnv
  /\ ChunkIdle
  /\ QueueIdle
  /\ JudgeIdle
  /\ FilterIdle
  /\ SaveIdle
  /\ InvokeIdle
  /\ ValidateIdle

NextEnv ==
  \/ RunnerLoadEnv
  \/ ChildLoadEnv

SpecEnv == InitEnv /\ [][NextEnv]_vars

(* The filter on a stream of at most MaxBytes bytes, delivered in chunks   *)
(* of any sizes.                                                           *)
InitChunks ==
  /\ \E n \in 0..MaxBytes :
       byteStream \in [1..n -> {"a1", "a2", "b", "CR", "LF"}]
  /\ fedBytes = 0
  /\ rawBuffer = <<>>
  /\ chunkCount = 0
  /\ filterPc = "streaming"
  /\ lastAssistantOutput = <<>>
  /\ lastUserOutput = <<>>
  /\ knownUserPrompts = <<>>
  /\ filterSessionId = Null
  /\ written = <<>>
  /\ delivered = NoDelivery
  /\ fedCount = 0
  /\ cumulative = TRUE
  /\ lastFed = <<>>
  /\ lastStep = NoStep
  /\ callerSessionId = Null
  /\ lastSessionIdSeen = Null
  /\ QueueIdle
  /\ JudgeIdle
  /\ SaveIdle
  /\ InvokeIdle
  /\ ValidateIdle
  /\ EnvIdle

NextChunks ==
  \/ \E n \in 1..MaxBytes : FilterData(n)
  \/ FilterChunksEnd

SpecChunks == InitChunks /\ [][NextChunks]_vars

(* One call of the judge client with any behaviour of call-llm. *)
InitJudge ==
  /\ judgePc = "calling"
  /\ judgeRaw \in JudgeOutcomes
  /\ judgeVerdict = NoVerdict
  /\ QueueIdle
  /\ FilterIdle
  /\ SaveIdle
  /\ InvokeIdle
  /\ ValidateIdle
  /\ EnvIdle
  /\ ChunkIdle

NextJudge == JudgeReturn

SpecJudge == InitJudge /\ [][NextJudge]_vars

(* One stream filter fed with up to MaxEvents lines. *)
InitFilter ==
  /\ filterPc = "streaming"
  /\ lastAssistantOutput = <<>>
  /\ lastUserOutput = <<>>
  /\ knownUserPrompts = <<>>
  /\ filterSessionId = Null
  /\ written = <<>>
  /\ delivered = NoDelivery
  /\ fedCount = 0
  /\ cumulative = TRUE
  /\ lastFed = <<>>
  /\ lastStep = NoStep
  /\ callerSessionId = Null
  /\ lastSessionIdSeen = Null
  /\ QueueIdle
  /\ JudgeIdle
  /\ SaveIdle
  /\ InvokeIdle
  /\ ValidateIdle
  /\ EnvIdle
  /\ ChunkIdle

NextFilter ==
  \/ \E e \in StreamEvents : FilterLine(e)
  \/ \E e \in FinalLines : FilterEnd(e)

SpecFilter == InitFilter /\ [][NextFilter]_vars

(* Saves of the queue file, a kill of the writer at any point, and a       *)
(* reader at any moment.                                                   *)
InitSave ==
  /\ SaveIdle
  /\ InvokeIdle
  /\ ValidateIdle
  /\ QueueIdle
  /\ JudgeIdle
  /\ FilterIdle
  /\ EnvIdle
  /\ ChunkIdle

NextSave ==
  \/ \E i \in 1..NumTasks, st \in TaskStatuses : SaveStart(i, st)
  \/ SaveOpen
  \/ SaveWriteChunk
  \/ SaveRename
  \/ SaveKilled
  \/ SaveRestart
  \/ ReaderOpen
  \/ ReaderRead

SpecSave == InitSave /\ [][NextSave]_vars

(* Invocations, the events of their subprocesses in every order.  A timer  *)
(* that is armed fires unless it is cleared.                               *)
InitInvoke ==
  /\ callNo = 0
  /\ alive = [c \in 1..MaxCalls |-> FALSE]
  /\ signalled = {}
  /\ streamPartial \in BOOLEAN
  /\ timer = "idle"
  /\ settle = "pending"
  /\ settleChanges = 0
  /\ produced = <<>>
  /\ fed = 0
  /\ stdout = 0
  /\ streamEnded = FALSE
  /\ closeEmitted = FALSE
  /\ spawnErr = "no"
  /\ resultStdout = -1
  /\ judgeInput = -1
  /\ QueueIdle
  /\ JudgeIdle
  /\ FilterIdle
  /\ SaveIdle
  /\ ValidateIdle
  /\ EnvIdle
  /\ ChunkIdle

NextInvoke ==
  \/ \E started \in BOOLEAN : NextAttempt(started)
  \/ \E started \in BOOLEAN : NextTask(started)
  \/ \E size \in ChunkSizes : ChildWrites(size)
  \/ StreamData
  \/ \E c \in 1..MaxCalls : ChildExit(c)
  \/ StreamEnd
  \/ ChildClose
  \/ ChildError
  \/ TimerFires
  \/ JudgeCall

SpecInvoke == InitInvoke /\ [][NextInvoke]_vars /\ WF_vars(TimerFires)

(* A run of run_all_tasks on any of the queue files. *)
InitValidate ==
  /\ queue \in Queues
  /\ runPc = "start"
  /\ cursor = 1
  /\ spawned = 0
  /\ writes = 0
  /\ exitCode = -1
  /\ QueueIdle
  /\ JudgeIdle
  /\ FilterIdle
  /\ SaveIdle
  /\ InvokeIdle
  /\ EnvIdle
  /\ ChunkIdle

NextValidate ==
  \/ RunLoad
  \/ RunValidate
  \/ RunTask
  \/ RunEnd

SpecValidate == InitValidate /\ [][NextValidate]_vars

(***************************************************************************)
(* Properties.                                                             *)
(***************************************************************************)
(* executeTaskWithRetry has returned and main has printed its report. *)
Returned == ctlPc = "exited" /\ childOut.printed

Report == childOut.report

(* An attempt whose invocation closed with exit 0 and an empty stderr. *)
RanClean(inv) ==
  inv.launched /\ inv.settle = "close" /\ inv.exitCode = 0 /\ inv.stderr = ""

(* A clean attempt after which the judge returned resume or auto. *)
CleanResumed(inv) ==
  RanClean(inv) /\ inv.judged /\ inv.result \in {"resume", "auto"}

(* C1: for every k in 1..retry, when attempts 1..k-1 ran clean and were    *)
(* judged resume or auto and the agent invocation of attempt k returns a   *)
(* non-zero exit status, the returned report has attempts = k, k entries   *)
(* in executions, finalStatus "error", success false, and the judge was    *)
(* not called on attempt k.                                                *)
C1_NonZeroExitReportsError ==
  (/\ Returned
   /\ Len(invocations) >= 1
   /\ \A i \in 1..(Len(invocations) - 1) : CleanResumed(invocations[i])
   /\ LastInv.launched
   /\ LastInv.settle = "close"
   /\ LastInv.exitCode # 0)
  => (/\ Report.attempts = Len(invocations)
      /\ Len(Report.executions) = Len(invocations)
      /\ Report.finalStatus = "error"
      /\ Report.success = FALSE
      /\ LastInv.judged = FALSE)

(* C2: when every agent invocation exits 0 with an empty error stream, a   *)
(* continuation handle is available and the judge returns resume after     *)
(* every attempt, executeTaskWithRetry makes exactly retry attempts, one   *)
(* initial invocation followed by retry - 1 resume invocations, and        *)
(* returns finalStatus "partial" with success false.                       *)
C2_AlwaysResumeGivesPartial ==
  (/\ Returned
   /\ Len(invocations) >= 1
   /\ \A i \in 1..Len(invocations) :
        /\ RanClean(invocations[i])
        /\ invocations[i].judged
        /\ invocations[i].result = "resume"
        /\ invocations[i].sid # Null)
  => (/\ Report.attempts = retry
      /\ Len(invocations) = retry
      /\ invocations[1].mode = "initial"
      /\ \A i \in 2..Len(invocations) : invocations[i].mode = "resume"
      /\ Report.finalStatus = "partial"
      /\ Report.success = FALSE)

(* C3: the judge client fails closed.  interpretSemanticsViaLLM returns    *)
(* result "done" only when the output of the classifier parses as a JSON   *)
(* object whose result field is exactly "done"; for an empty, non-JSON or  *)
(* unrecognized-token output, and for a judge call that exits non-zero,    *)
(* writes to its error stream, times out or cannot be spawned, it returns  *)
(* result "resume"; it does not throw.                                     *)
C3_JudgeFailsClosed ==
  judgePc = "returned"
  => (/\ judgeVerdict.threw = FALSE
      /\ judgeVerdict.result = "done"
           => (/\ judgeRaw.settle = "close"
               /\ judgeRaw.stdout.shape = "json_object"
               /\ judgeRaw.stdout.result = "done")
      /\ (\/ judgeRaw.stdout.shape \in {"empty", "prose", "fenced"}
          \/ (judgeRaw.stdout.shape = "json_object"
              /\ judgeRaw.stdout.result \in {"DONE", "absent"})
          \/ (judgeRaw.settle = "close" /\ ExitCodeOf(judgeRaw) # 0)
          \/ judgeRaw.stderr # ""
          \/ judgeRaw.settle \in {"timeout", "spawn_error", "missing_script"})
           => judgeVerdict.result = "resume")

(* The judge call printed a done verdict but exited non-zero, and the      *)
(* client returned resume.                                                 *)
C3_Witness ==
  /\ judgePc = "returned"
  /\ judgeRaw.settle = "close"
  /\ judgeRaw.code = 1
  /\ judgeRaw.stdout = DoneStdout
  /\ judgeVerdict.result = "resume"
  /\ judgeVerdict.threw = FALSE

(* C4: for any n in 1..retry, when attempts 1..n all exit 0 with an empty  *)
(* error stream, attempt 1 yields a continuation handle, attempts 1..n-1   *)
(* are judged resume or auto and attempt n is judged done, the report is   *)
(* success true, attempts n, finalStatus "done", and the task is persisted *)
(* with status done.                                                       *)
C4_DoneVerdictGivesDone ==
  (/\ Returned
   /\ Len(invocations) >= 1
   /\ invocations[1].sid # Null
   /\ \A i \in 1..(Len(invocations) - 1) : CleanResumed(invocations[i])
   /\ RanClean(LastInv)
   /\ LastInv.judged
   /\ LastInv.result = "done")
  => (/\ Report.success = TRUE
      /\ Report.attempts = Len(invocations)
      /\ Report.finalStatus = "done"
      /\ settled.how = "resolved" => disk[settled.idx].status = "done")

(* C5: when the agent process of a pending task exits with a non-zero      *)
(* status on any attempt from 1 to retry, run_all_tasks persists the task  *)
(* with status "error" and a non-empty error_message, never as "done".     *)
C5_NonZeroExitPersistsError ==
  (/\ settled.how = "resolved"
   /\ Len(invocations) >= 1
   /\ LastInv.launched
   /\ LastInv.settle = "close"
   /\ LastInv.exitCode # 0)
  => (/\ disk[settled.idx].status = "error"
      /\ disk[settled.idx].error_message \notin {Null, ""}
      /\ tasks[settled.idx].status # "done")

(* C6: executeTaskWithRetry returns finalStatus "partial" only when        *)
(* exactly retry attempts ran, each exited clean and was judged resume or  *)
(* auto, and no runtime error, exception, timeout or missing-handle        *)
(* failure occurred in any attempt; errorMessage is then null.             *)
C6_PartialOnlyAfterCleanAttempts ==
  (Returned /\ Report.finalStatus = "partial")
  => (/\ Report.attempts = retry
      /\ Len(invocations) = retry
      /\ \A i \in 1..Len(invocations) : CleanResumed(invocations[i])
      /\ Len(Report.executions) = retry
      /\ \A i \in 1..Len(Report.executions) :
           Report.executions[i].conclusion \in {"suggest", "continue"}
      /\ Report.errorMessage = Null)

(* C7: when a resume attempt (attempt >= 2) is reached and no continuation *)
(* handle was ever obtained, no subprocess is launched for that attempt    *)
(* and the report returned has finalStatus "error", success false and a    *)
(* non-null errorMessage, for every retry >= 2, the last allowed attempt   *)
(* included; the process does not crash.                                   *)
C7_MissingHandleReportsError ==
  (/\ ctlPc = "exited"
   /\ Len(invocations) >= 2
   /\ LastInv.mode = "resume"
   /\ LastInv.handle = Null)
  => (/\ LastInv.launched = FALSE
      /\ childOut.printed
      /\ Report.finalStatus = "error"
      /\ Report.success = FALSE
      /\ Report.errorMessage # Null)

(* C8: every report returned by executeTaskWithRetry has finalStatus in    *)
(* done, partial, error; success is true exactly when finalStatus is done; *)
(* finalStatus error implies a non-null errorMessage.                      *)
C8_ReportWellFormed ==
  Returned
  => (/\ Report.finalStatus \in {"done", "partial", "error"}
      /\ Report.success = (Report.finalStatus = "done")
      /\ Report.finalStatus = "error" => Report.errorMessage # Null)

(* A report with each of the three statuses has been returned: here the    *)
(* one with "partial", for which success must be false.                    *)
C8_Witness ==
  /\ Returned
  /\ Report.finalStatus = "partial"
  /\ Report.success = FALSE
  /\ Report.attempts = retry

(* C9: for any sequence of assistant events carrying cumulative texts      *)
(* T1..Tn, each starting with the one before, the deltas the filter emits  *)
(* concatenate to exactly Tn and lastAssistantOutput ends equal to Tn;     *)
(* feeding Tn once more (a sequence that repeats its last text) emits      *)
(* nothing and leaves lastAssistantOutput unchanged.                       *)
C9_CumulativeTextsGiveLast ==
  (filterPc = "streaming" /\ fedCount >= 1 /\ cumulative)
  => (written = lastFed /\ lastAssistantOutput = lastFed)

(* C10: when the assistant text T' of a line neither equals nor starts     *)
(* with lastAssistantOutput, the filter emits T' in full and sets          *)
(* lastAssistantOutput to T'; a following line with T' + x emits only x.   *)
C10_DifferentTextEmittedInFull ==
  /\ (lastStep.kind = "line" /\ lastStep.resetText # <<>>)
       => (/\ lastStep.emit = lastStep.resetText
           /\ lastAssistantOutput = lastStep.resetText)
  /\ (/\ lastStep.kind = "line"
      /\ lastStep.afterReset # <<>>
      /\ StartsWith(lastStep.candidate, lastStep.afterReset)
      /\ lastStep.candidate # lastStep.afterReset)
       => lastStep.emit = Slice(lastStep.candidate, Len(lastStep.afterReset))

(* C11: a reader of the queue file, at any moment and under any            *)
(* interleaving with save_task_file, also when the writer is killed        *)
(* between the write of the temp file and the rename, sees the complete    *)
(* previous document or the complete new one, never truncated JSON and     *)
(* never a document with another task count.                               *)
C11_ReaderSeesWholeDocument ==
  readerSeen # NotRead
  => (/\ ParsesAsDocument(readerSeen)
      /\ Len(readerSeen) - 2 = NumTasks
      /\ readerSeen \in readerExpect)

(* The reader read while the temp file was half written, and got the       *)
(* previous document.                                                      *)
C11_Witness ==
  /\ readAt = "writing"
  /\ memDoc # committed
  /\ readerSeen = Serialize(committed)
  /\ fsDir.tmp # 0
  /\ ~ParsesAsDocument(fsInodes[fsDir.tmp])

(* C12: each call of runCursorAgentInitial or runCursorAgentResume settles  *)
(* exactly once, with one result (on close) or one rejection (on timer     *)
(* expiry or spawn error), never both and never neither, in every order of *)
(* the close, error and timer events; on timer expiry the child is sent    *)
(* SIGTERM and the call rejects with a timeout error.                      *)
C12_SettledOnce ==
  /\ settleChanges = (IF settle = "pending" THEN 0 ELSE 1)
  /\ settle = "resolved" => closeEmitted /\ timer = "cleared"
  /\ settle = "rejected_error" => spawnErr = "emitted"
  /\ timer = "fired" <=> settle = "rejected_timeout"
  /\ timer = "fired" => callNo \in signalled

C12_SettlesExactlyOnce ==
  /\ []C12_SettledOnce
  /\ (callNo > 0 /\ settle = "pending") ~> (settle # "pending")

(* The timer fired first and the close of the killed child came later. *)
C12_Witness ==
  /\ settle = "rejected_timeout"
  /\ closeEmitted
  /\ callNo \in signalled

(* C13: when the invocation of an attempt times out and attempts < retry,   *)
(* the controller does not run the same attempt index again, does not      *)
(* change the stored continuation handle, and goes on to the next attempt  *)
(* instead of ending the task.                                             *)
C13_TimeoutProceedsToNextAttempt ==
  \A i \in 1..Len(invocations) :
    (/\ invocations[i].settle = "timeout"
     /\ i < retry
     /\ ctlPc = "exited")
    => (/\ Len(invocations) > i
        /\ invocations[i + 1].handle = invocations[i].handle)

(* C14: in run_all_tasks a task that ends in error (runtime error,          *)
(* timeout, unparsable result, or an exception of execute_task) does not   *)
(* stop the run: every later pending task is still executed, in queue      *)
(* order.                                                                  *)
C14_ErrorDoesNotStopRun ==
  /\ (settled.idx # 0 /\ tasks[settled.idx].status = "error")
       => (runnerPc = "loop" /\ taskIdx = settled.idx + 1)
  /\ \A i \in 1..Len(tasks) :
       /\ i < taskIdx => tasks[i].status # "pending"
       /\ i > taskIdx => tasks[i] \in InitialTasks
  /\ runnerPc = "finished"
       => (/\ taskIdx = Len(tasks) + 1
           /\ completed + errored + skipped = Len(tasks))

(* The first task ended in error in this run and the second was executed   *)
(* after it.                                                               *)
C14_Witness ==
  /\ runnerPc = "finished"
  /\ tasks[1].status = "error"
  /\ tasks[1].error_message # "old_error"
  /\ tasks[2].status = "done"
  /\ tasks[2].report = "new_report"

(* C15: if validate_config rejects the queue file, run_all_tasks executes   *)
(* no task, spawns no agent process and does not write the queue file; the *)
(* run ends with a fatal error.                                            *)
C15_InvalidQueueRunsNothing ==
  /\ (validate_config(queue) # "ok" /\ runPc \notin {"start", "loaded"})
       => (/\ runPc = "fatal"
           /\ exitCode = 1)
  /\ validate_config(queue) # "ok"
       => (/\ cursor = 1
           /\ spawned = 0
           /\ writes = 0)

(* A queue whose second task has no id was rejected. *)
C15_Witness ==
  /\ runPc = "fatal"
  /\ queue.isArray
  /\ validate_config(queue) = "missing_id"

(* C16: validate_config accepts a queue exactly when tasks is an array and  *)
(* every task has a non-empty name unique in the queue, an id of 1 to 255  *)
(* characters (non-empty after trimming) unique in the queue, and at least *)
(* a non-blank prompt or one existing spec reference; every other queue is *)
(* rejected with an error.                                                 *)
C16_WellFormedTask(task) ==
  /\ task.name \notin {Null, ""}
  /\ task.id.present
  /\ task.id.len >= 1
  /\ task.id.len + task.id.pad <= 255
  /\ \/ task.prompt \notin {Null, "", " "}
     \/ task.spec_file.count >= 1 /\ task.spec_file.exists

C16_WellFormedQueue ==
  /\ queue.isArray
  /\ \A i \in 1..Len(queue.tasks) : C16_WellFormedTask(queue.tasks[i])
  /\ \A i, j \in 1..Len(queue.tasks) :
       i # j => /\ queue.tasks[i].name # queue.tasks[j].name
                /\ queue.tasks[i].id # queue.tasks[j].id

C16_AcceptsExactlyWellFormed ==
  runPc \notin {"start", "loaded"}
  => (runPc # "fatal" <=> C16_WellFormedQueue)

(* C17: run_all_tasks executes only tasks whose status is pending: a task   *)
(* that is done or error at the start of a run is not executed, and its    *)
(* status, error_message and report are left unchanged by the run; only    *)
(* --reset / --reset-error move it back to pending.                        *)
C17_Step ==
  /\ \A i \in 1..Len(tasks) :
       tasks[i].status # "pending" => (tasks'[i] = tasks[i] /\ disk'[i] = disk[i])
  /\ (runnerPc # "waiting" /\ runnerPc' = "waiting")
       => tasks[taskIdx].status = "pending"
  /\ (settled' # settled /\ settled'.idx # 0)
       => tasks[settled'.idx].status = "pending"

C17_OnlyPendingExecuted == [][C17_Step]_vars

(* The run is over: the first task was done before the run and is as it    *)
(* was, the second one was executed.                                       *)
C17_Witness ==
  /\ runnerPc = "finished"
  /\ skipped = 1
  /\ tasks[1] = [status |-> "done", error_message |-> Null, report |-> "old_report"]
  /\ tasks[2].report = "new_report"

(* C18: whatever the judge returns and however the judge call fails         *)
(* (network failure, non-zero exit, unparsable output, or a parsed verdict  *)
(* whose reasons field is missing or is not a list of strings), the         *)
(* controller treats the attempt as one of the verdicts done, resume, auto: *)
(* it never records the attempt as an execution error and never sets        *)
(* finalStatus to error because of the judge.                               *)
C18_JudgeNeverEscalates ==
  \A i \in 1..Len(invocations) :
    invocations[i].judged
    => (/\ Len(executions) >= i
        /\ executions[i].conclusion \in {"completed", "suggest", "continue"}
        /\ (i = Len(invocations) /\ ctlPc = "after") => finalStatus # "error")

(* C19: the transcript passed to the judge for an attempt is the            *)
(* extractor's final transcript: the invocation result is produced only    *)
(* after the extractor has processed end-of-stream of the subprocess       *)
(* output, so under no ordering of the process-close and stream-end events *)
(* does the controller judge an empty or partial transcript.               *)
C19_ResultAfterEndOfStream ==
  settle = "resolved"
  => (/\ streamEnded
      /\ fed = Len(produced)
      /\ resultStdout = TextLen(produced, Len(produced)))

C20_OneSubprocessAlive ==
  Cardinality({c \in 1..MaxCalls : alive[c]}) <= 1

(* C21: at end of stream a final line not terminated by a newline is       *)
(* processed exactly like a complete line: its assistant text is diffed    *)
(* against lastAssistantOutput and included in the transcript handed to    *)
(* the caller, and its session_id is reported; the transcript and handle   *)
(* delivered are the same as if the stream had ended with a newline.       *)
C21_FinalLineLikeCompleteLine ==
  (filterPc = "ended" /\ lastStep.kind = "end")
  => (/\ delivered.done
      /\ delivered.text = AssistantDiff(lastStep.candidate, lastStep.before).last
      /\ delivered.session_id = filterSessionId)

(* C22: the continuation handle reported by the stream filter is always    *)
(* the session_id of the most recent event that carried a non-empty one,   *)
(* whatever the role or type of that event; each change is passed to the   *)
(* caller's callback when the event is processed (before end of stream),   *)
(* and events without a session_id never clear it.                         *)
C22_HandleIsLastSessionId ==
  /\ filterSessionId = lastSessionIdSeen
  /\ callerSessionId = lastSessionIdSeen
  /\ delivered.done => delivered.session_id = lastSessionIdSeen

(* Mid-stream: the caller holds s2, which no assistant line carries, and   *)
(* the last line was an assistant line with a text.                        *)
C22_Witness ==
  /\ filterPc = "streaming"
  /\ fedCount >= 2
  /\ callerSessionId = "s2"
  /\ lastStep.kind = "line"
  /\ lastStep.candidate # <<>>
  /\ lastFed # <<>>

(* C23: the arguments of every resume invocation depend only on the model, *)
(* the handle held after the most recent attempt and the most recent       *)
(* verdict: the instruction is "suggest" ("按你的建议执行") if and only if *)
(* the immediately preceding verdict was auto and "continue" ("请继续")    *)
(* otherwise, earlier verdicts do not matter, and the original prompt is   *)
(* never passed.                                                           *)
C23_ResumeArguments ==
  \A i \in 2..Len(invocations) :
    invocations[i].launched
    => (/\ invocations[i].mode = "resume"
        /\ invocations[i - 1].judged
        /\ invocations[i].instr =
             (IF invocations[i - 1].result = "auto" THEN "auto" ELSE "continue")
        /\ invocations[i].handle =
             (IF invocations[i - 1].sid # Null THEN invocations[i - 1].sid
              ELSE invocations[i - 1].handle))

(* The third attempt follows the verdicts auto and resume, and is told to  *)
(* continue.                                                               *)
C23_Witness ==
  /\ Len(invocations) >= 3
  /\ invocations[1].result = "auto"
  /\ invocations[2].result = "resume"
  /\ invocations[3].launched
  /\ invocations[3].instr = "continue"
  /\ invocations[2].instr = "auto"

(* C24: when run_all_tasks begins executing a task, the queue file on disk  *)
(* already holds the final status (done or error) of every task executed   *)
(* earlier in the same run: each status change is saved before the next    *)
(* task starts.                                                            *)
C24_SavedBeforeNextTask ==
  \A i \in 1..Len(tasks) :
    i < taskIdx
    => (/\ disk[i] = tasks[i]
        /\ disk[i].status \in {"done", "error"})

(* The second task is being executed and the disk holds the error the      *)
(* first one ended with in this run.                                       *)
C24_Witness ==
  /\ runnerPc = "waiting"
  /\ taskIdx = 2
  /\ disk[1].status = "error"
  /\ disk[1].error_message # "old_error"

(* C25: execute_task maps the report of the controller to the task status: *)
(* success true or finalStatus done gives done; finalStatus partial gives  *)
(* done with no error_message; anything else (finalStatus error,           *)
(* unparsable output, timeout, exception) gives error with an              *)
(* error_message.                                                          *)
C25_ReportToStatus ==
  /\ settled.how = "resolved"
       => (IF childOut.printed /\ (Report.success \/ Report.finalStatus = "done")
           THEN disk[settled.idx].status = "done"
           ELSE IF childOut.printed /\ Report.finalStatus = "partial"
           THEN /\ disk[settled.idx].status = "done"
                /\ disk[settled.idx].error_message = Null
           ELSE /\ disk[settled.idx].status = "error"
                /\ disk[settled.idx].error_message \notin {Null, ""})
  /\ settled.how \in {"rejected", "precheck", "report_failed"}
       => (/\ disk[settled.idx].status = "error"
           /\ disk[settled.idx].error_message \notin {Null, ""})

(* A report with finalStatus partial made the task done. *)
C25_Witness ==
  /\ settled.how = "resolved"
  /\ childOut.printed
  /\ Report.finalStatus = "partial"
  /\ ~Report.success
  /\ disk[settled.idx].status = "done"


C27_AbsentStatusIsExecuted ==
  (runnerPc = "finished" /\ completed + skipped + errored = Len(tasks))
  => \A i \in 1..Len(tasks) : tasks[i].status # "absent"


(* What reset_tasks and reset_error_tasks make of a task they reset. *)
C29_Cleared(task) ==
  [task EXCEPT !.status = "pending", !.error_message = Null, !.report = Null]

C29_NothingExecuted ==
  /\ ctlPc' = "idle"
  /\ invocations' = <<>>
  /\ completed' = 0
  /\ errored' = 0
  /\ settled' = NotSettled

(* C29 as stated: --reset leaves every task of the file pending and        *)
(* without error_message and report, changes no other field, adds or       *)
(* removes no task, and executes none.                                     *)
C29_ResetStepAsStated ==
  (runnerPc = "reset" /\ runnerPc' = "reset_saved")
  => /\ Len(disk') = Len(disk)
     /\ \A i \in 1..Len(disk) : disk'[i] = C29_Cleared(disk[i])
     /\ C29_NothingExecuted

C29_ResetClearsEveryTask == [][C29_ResetStepAsStated]_vars

(* C29 (amended): --reset makes every task whose status is not pending     *)
(* pending and removes its error_message and report; a task that is        *)
(* already pending is left as it is, with any error_message and report it  *)
(* has; no other field changes, no task is added, removed or executed.     *)
C29_ResetStep ==
  (runnerPc = "reset" /\ runnerPc' = "reset_saved")
  => /\ Len(disk') = Len(disk)
     /\ \A i \in 1..Len(disk) :
          disk'[i] = IF disk[i].status # "pending" THEN C29_Cleared(disk[i])
                     ELSE disk[i]
     /\ C29_NothingExecuted

C29_ResetClearsNonPending == [][C29_ResetStep]_vars

(* --reset has saved a file in which a task was pending with an            *)
(* error_message and still has it, next to a task that was reset.          *)
C29_Witness ==
  /\ runnerPc = "reset_saved"
  /\ disk[1].status = "pending"
  /\ disk[1].error_message = "old_error"
  /\ disk[2].status = "pending"
  /\ disk[2].error_message = Null
  /\ disk[2].report = Null

(* C30: --reset-error makes exactly the tasks whose status is error        *)
(* pending and removes their error_message and report; every other task    *)
(* is in the saved file as it was.                                         *)
C30_ResetErrorStep ==
  /\ (runnerPc = "reset_error" /\ runnerPc' = "reset_error_saved")
       => (/\ Len(disk') = Len(disk)
           /\ \A i \in 1..Len(disk) :
                disk'[i] = IF disk[i].status = "error"
                           THEN [disk[i] EXCEPT !.status = "pending",
                                                !.error_message = Null,
                                                !.report = Null]
                           ELSE disk[i])
  /\ (runnerPc = "reset_error" /\ runnerPc' = "reset_error")
       => (/\ disk' = disk
           /\ \A i \in 1..Len(tasks) :
                tasks[i].status # "error" => tasks'[i] = tasks[i])

C30_ResetErrorOnlyErrors == [][C30_ResetErrorStep]_vars

(* --reset-error has saved a file with a task that was error and a task    *)
(* that is done as before.                                                 *)
C30_Witness ==
  /\ runnerPc = "reset_error_saved"
  /\ tasks[1].status = "pending"
  /\ tasks[1].report = Null
  /\ disk[2].status = "done"
  /\ disk[2].report = "old_report"
  /\ disk[2].prompt = "p"


(* C28: a queue file with a valid tasks array and no prompts field is      *)
(* accepted: the run does not abort, it goes through its tasks and ends    *)
(* with exit code 0.                                                       *)
C28_NoPromptsFieldIsAccepted ==
  (validate_config(queue) = "ok" /\ ~queue.hasPrompts)
  => (/\ runPc \notin {"fatal", "crashed"}
      /\ exitCode \in {-1, 0})


(* C32: an attempt is a runtime error exactly when the exit status of the  *)
(* invocation is not zero or its error stream matches one of the failure   *)
(* markers; an invocation that exits with 0 and whose error stream has no  *)
(* marker goes on to the judge.                                            *)
C32_RuntimeErrorOnlyOnMarkers ==
  \A i \in 1..Len(invocations) :
    invocations[i].settle = "close"
    => /\ (\E k \in 1..Len(executions) :
             /\ executions[k].index = i
             /\ executions[k].conclusion = "runtime")
          <=> is_runtime_error(invocations[i].exitCode, invocations[i].stderr)
       /\ ~is_runtime_error(invocations[i].exitCode, invocations[i].stderr)
          => (invocations[i].judged \/ (i = Len(invocations) /\ ctlPc = "judge"))


(* C36: in every report that executeTaskWithRetry returns, executions has  *)
(* exactly attempts entries, with index 1, 2, ..., attempts in this order; *)
(* and while the loop runs an entry is never changed or removed once it    *)
(* has been appended.                                                      *)
C36_Step ==
  /\ childOut'.printed
       => (/\ Len(childOut'.report.executions) = childOut'.report.attempts
           /\ \A k \in 1..Len(childOut'.report.executions) :
                childOut'.report.executions[k].index = k)
  /\ attempts' # 0
       => (/\ Len(executions') >= Len(executions)
           /\ \A k \in 1..Len(executions) : executions'[k] = executions[k])

C36_OneEntryPerAttempt == [][C36_Step]_vars


(* C37: executeTaskWithRetry, with retry >= 1, returns finalStatus done    *)
(* (and success = true) only if the judge returned done for the last       *)
(* attempt performed: never after a runtime error or an exception, and     *)
(* never when the last verdict was resume or auto.                         *)
C37_DoneOnlyAfterDoneVerdict ==
  (childOut.printed
   /\ (childOut.report.finalStatus = "done" \/ childOut.report.success))
  => /\ childOut.report.finalStatus = "done"
     /\ childOut.report.success
     /\ childOut.report.attempts = Len(invocations)
     /\ LastInv.settle = "close"
     /\ ~IsRuntimeError([exitCode |-> LastInv.exitCode,
                         stderr |-> LastInv.stderr])
     /\ LastInv.judged
     /\ LastInv.result = "done"
     /\ lastSemanticsResult = "done"
     /\ childOut.report.executions[Len(childOut.report.executions)].conclusion
          = "completed"

(* A report with finalStatus done after a resume verdict and a done        *)
(* verdict.                                                                *)
C37_Witness ==
  /\ childOut.printed
  /\ childOut.report.finalStatus = "done"
  /\ childOut.report.attempts = 2
  /\ invocations[1].result = "resume"
  /\ invocations[2].result = "done"


(* C39: whatever the agent and the judge do, executeTaskWithRetry makes at *)
(* most retry agent invocations: attempts never exceeds retry; a done      *)
(* verdict, a runtime error or an exception ends the loop at once (no      *)
(* further attempt is started after such an entry); and the judge is       *)
(* called at most once per attempt.                                        *)
C39_Step ==
  /\ attempts' <= retry'
  /\ Len(invocations') <= retry'
  /\ (ctlPc \notin {"idle", "exited"} /\ ctlPc' # "idle")
       => /\ attempts' > attempts
               => (/\ attempts' = attempts + 1
                   /\ \A k \in 1..Len(executions) :
                        executions[k].conclusion \in {"continue", "suggest"})
          /\ (ctlPc = "judge" /\ ctlPc' # ctlPc)
               => (/\ ~LastInv.judged
                   /\ Len(invocations') = Len(invocations)
                   /\ ctlPc' \in {"loop", "after"})
          /\ \A i \in 1..Len(invocations) :
               invocations[i].judged => invocations'[i] = invocations[i]

C39_AtMostRetryInvocations == [][C39_Step]_vars

(* The run used all its attempts: retry invocations, each judged once. *)
C39_Witness ==
  /\ ctlPc = "exited"
  /\ retry = MaxRetry
  /\ attempts = retry
  /\ Len(invocations) = retry
  /\ \A i \in 1..Len(invocations) : invocations[i].judged


(* C40: when run_all_tasks returns, no task that was pending at its start  *)
(* is still pending, in memory or in the queue file (a task only becomes   *)
(* pending by a reset, so none is pending at all), and completed +         *)
(* skipped + errored is the number of tasks of the queue.                  *)
C40_NoPendingLeft ==
  /\ runnerPc = "finished"
       => (/\ \A i \in 1..Len(tasks) :
                /\ tasks[i].status # "pending"
                /\ disk[i].status # "pending"
           /\ completed + skipped + errored = Len(tasks))
  /\ runnerPc \in {"loop", "waiting"}
       => \A i \in 1..Len(tasks) :
            i < taskIdx => tasks[i].status # "pending"

(* The run returned after two pending tasks: one is done, with the report  *)
(* of this run, and one is error.                                          *)
C40_Witness ==
  /\ runnerPc = "finished"
  /\ tasks[1].status = "done"
  /\ tasks[1].report = "new_report"
  /\ tasks[2].status = "error"
  /\ tasks[2].report = "new_report"
  /\ completed = 1
  /\ errored = 1


(* C38: the continuation handle the controller stores is never set back to *)
(* null or empty once it has a value, and every resume invocation is given *)
(* the non-empty handle reported by the most recent invocation that        *)
(* reported one.                                                           *)
C38_Step ==
  /\ (ctlPc \notin {"idle", "exited"} /\ ctlPc' # "idle" /\ sessionId # Null)
       => sessionId' \notin {Null, ""}
  /\ \A i \in 1..Len(invocations') :
       (invocations'[i].launched /\ invocations'[i].mode = "resume")
       => /\ invocations'[i].handle \notin {Null, ""}
          /\ \E j \in 1..(i - 1) :
               /\ invocations'[j].sid = invocations'[i].handle
               /\ \A k \in (j + 1)..(i - 1) : invocations'[k].sid = Null

C38_HandleKeptAndLatest == [][C38_Step]_vars

(* A second resume call got the session id that the first resume call      *)
(* reported, which is not the one of the initial call.                     *)
C38_Witness ==
  /\ Len(invocations) = 3
  /\ invocations[3].launched
  /\ invocations[3].mode = "resume"
  /\ invocations[1].sid = "s1"
  /\ invocations[2].sid = "s2"
  /\ invocations[3].handle = "s2"
  /\ sessionId = "s2"


(* C31: loading .flow/.env never changes an environment variable that is   *)
(* already set: after cursor-tasks and the cursor-agent-task process it    *)
(* spawned have loaded the file, every variable that was set in the system *)
(* environment, OPENAI_API_KEY included, still has its system value.       *)
C31_SystemValuesKept ==
  \A k \in EnvKeys :
    systemEnv[k] # Null
    => /\ runnerEnv[k] = systemEnv[k]
       /\ childEnv[k] = systemEnv[k]


(* What the filter ends with when the whole stream comes as one chunk. *)
C33_OneChunk ==
  LET lines == SplitLines(byteStream, <<>>)
      st == FeedLines([last |-> <<>>, prompts |-> <<>>, userOut |-> <<>>,
                       sid |-> Null, out |-> <<>>],
                      lines, Len(lines) - 1)
      e == ParseLine(lines[Len(lines)])
  IN [text |-> st.last,
      session_id |-> UpdatedSessionId(st.sid, extractSessionId(e)),
      out |-> IF Usable(extractAssistantText(e))
              THEN st.out \o extractAssistantText(e) ELSE st.out]

(* C33: for a fixed byte stream, the text the filter emits, the final      *)
(* transcript and the final session id are the same for every way of       *)
(* splitting the stream into chunks, splits inside a line and between CR   *)
(* and LF included: they are what one chunk with the whole stream gives.   *)
C33_ChunkingDoesNotMatter ==
  filterPc = "ended"
  => /\ delivered.done
     /\ delivered.text = C33_OneChunk.text
     /\ delivered.session_id = C33_OneChunk.session_id
     /\ callerSessionId = C33_OneChunk.session_id
     /\ written = C33_OneChunk.out

(* The stream a1 a2 CR LF came byte by byte, cut inside the frame and      *)
(* between CR and LF, and the frame was processed.                         *)
C33_Witness ==
  /\ filterPc = "ended"
  /\ byteStream = <<"a1", "a2", "CR", "LF">>
  /\ chunkCount = 4
  /\ delivered.text = <<"n">>
  /\ delivered.session_id = "s1"
  /\ written = <<"n">>


(* The lines that are an event frame and parse. *)
C34_IsFrame(line) == TrimCR(line) \in {<<"a1", "a2">>, <<"b">>}

C34_Step ==
  filterPc = "streaming"
  => LET lines == SplitLines(rawBuffer
                             \o SubSeq(byteStream, fedBytes + 1, fedBytes'),
                             <<>>)
         frames == SelectSeq(SubSeq(lines, 1, Len(lines) - 1), C34_IsFrame)
         st == FeedLines([last |-> lastAssistantOutput,
                          prompts |-> knownUserPrompts,
                          userOut |-> lastUserOutput,
                          sid |-> filterSessionId,
                          out |-> written],
                         frames, Len(frames))
     IN IF chunkCount' = chunkCount + 1
        THEN /\ filterPc' = "streaming"
             /\ lastAssistantOutput' = st.last
             /\ filterSessionId' = st.sid
             /\ written' = st.out
             /\ frames = <<>>
                => /\ lastAssistantOutput' = lastAssistantOutput
                   /\ filterSessionId' = filterSessionId
                   /\ callerSessionId' = callerSessionId
                   /\ written' = written
        ELSE /\ filterPc' = "ended"
             /\ delivered'.done
             /\ ~C34_IsFrame(rawBuffer)
                => /\ lastAssistantOutput' = lastAssistantOutput
                   /\ filterSessionId' = filterSessionId
                   /\ written' = written

(* C34: a line that is not an event frame, or that does not parse as JSON, *)
(* changes neither lastAssistantOutput nor the session id, emits nothing,  *)
(* raises no error (the filter goes on streaming, and ends with its        *)
(* callbacks called), and the lines after it are processed as if it were   *)
(* not there.                                                              *)
C34_BadLinesAreSkipped == [][C34_Step]_vars

(* Half a frame on a line of its own, then frame B on the next line: the   *)
(* first line did nothing and frame B was processed.                       *)
C34_Witness ==
  /\ filterPc = "streaming"
  /\ byteStream = <<"a1", "LF", "b", "LF">>
  /\ fedBytes = 4
  /\ rawBuffer = <<>>
  /\ lastAssistantOutput = <<"n", "u">>
  /\ written = <<"n", "u">>
  /\ filterSessionId = "s2"


(* One complete line with the event e, as the claim has it. *)
C35_Line(e) ==
  FilterLine(e)
  => /\ (/\ Usable(extractAssistantText(e))
         /\ \E i \in 1..Len(knownUserPrompts) :
              knownUserPrompts[i] = extractAssistantText(e))
          => (written' = written
              /\ lastAssistantOutput' = lastAssistantOutput)
     /\ (e.type \in {"user", "system"} \/ e.role = "user")
          => (written' = written
              /\ lastAssistantOutput' = lastAssistantOutput)

(* C35: an event whose extracted assistant text is exactly a user prompt   *)
(* already seen in the stream produces no emission and leaves              *)
(* lastAssistantOutput unchanged; an event of type user or system, or with *)
(* message.role user, contributes no text to the transcript.               *)
C35_KnownPromptNotEchoed == [][\A e \in StreamEvents : C35_Line(e)]_vars

====
